---- MODULE Spec2Model ----
(***************************************************************************)
(* xCodex hook event protocol: the Python hook host (hook_host.py), its    *)
(* envelope resolver and the hook-script helper read_payload               *)
(* (xcodex_hooks.py).                                                      *)
(*                                                                         *)
(* JSON text is a sequence of tokens, JSON values are tagged records, and  *)
(* json.loads is a recursive-descent parser from the one to the other.     *)
(* The host is a state machine over the lines of stdin; the user handler   *)
(* on_event is the environment: every invocation either returns or raises  *)
(* an Exception.  A handler that ends the process (SystemExit,             *)
(* KeyboardInterrupt: BaseException, not Exception) is process             *)
(* termination and is outside the model.                                   *)
(***************************************************************************)
EXTENDS Integers, Sequences, FiniteSets, TLC

VARIABLES
    files,      \* the filesystem: path -> text of the file (absent: no file)
    stdin,      \* the lines of the input stream, in order (names of LineText)
    pc,         \* "start" | "loop" | "handler" | "exit"; "lib" when main is not run
    on_event,   \* main's local on_event: "unset" | "callable"
    lineNo,     \* number of lines taken from stdin so far
    calls,      \* handler invocations so far: [line, arg, outcome]
    stderr,     \* writes to the diagnostic channel, in order
    stdout,     \* writes to the primary output, in order
    status,     \* <<>> while running, <<code>> once the process has ended
    reads,      \* the files opened for reading so far: [path, text]
    fn          \* one call of a helper on its own: [op, input, done, result]

vars == <<files, stdin, pc, on_event, lineNo, calls, stderr, stdout, status, reads, fn>>

hostVars == <<files, stdin, pc, on_event, lineNo, calls, stderr, stdout, status>>

(***************************************************************************)
(* JSON values (what json.loads returns).                                  *)
(***************************************************************************)
JNull == [t |-> "null"]

JBool(b) == [t |-> "bool", b |-> b]

JInt(n) == [t |-> "int", n |-> n]

JStr(s) == [t |-> "str", s |-> s]

JList(l) == [t |-> "list", l |-> l]

JDict(d) == [t |-> "dict", d |-> d]

EmptyMap == <<>>

\* isinstance(v, dict)
IsDict(v) == v.t = "dict"

\* isinstance(v, str)
IsStr(v) == v.t = "str"

\* Python truthiness, as used by `or` and `if`.
Truthy(v) ==
    CASE v.t = "null" -> FALSE
      [] v.t = "bool" -> v.b
      [] v.t = "int"  -> v.n # 0
      [] v.t = "str"  -> v.s # ""
      [] v.t = "list" -> v.l # <<>>
      [] v.t = "dict" -> DOMAIN v.d # {}
      [] v.t = "float" -> v.tenths # 0
      [] v.t = "nonfinite" -> TRUE

\* a or b
PyOr(a, b) == IF Truthy(a) THEN a ELSE b

\* dict.get(key): the value, or None when the key is absent
DictGet(v, key) == IF key \in DOMAIN v.d THEN v.d[key] ELSE JNull

\* key in dict
HasKey(v, key) == key \in DOMAIN v.d

(***************************************************************************)
(* JSON text: tokens.                                                      *)
(***************************************************************************)
Tok(k, s, n) == [k |-> k, s |-> s, n |-> n]

P(s) == Tok("punct", s, 0)

S(s) == Tok("str", s, 0)

N(n) == Tok("num", "", n)

Lit(s) == Tok("lit", s, 0)

Word(s) == Tok("word", s, 0)

SP == Tok("ws", " ", 0)

NL == Tok("ws", "\n", 0)

IsWs(tok) == tok.k = "ws"

RECURSIVE LStrip(_)
LStrip(text) ==
    IF text # <<>> /\ IsWs(Head(text)) THEN LStrip(Tail(text)) ELSE text

RECURSIVE RStrip(_)
RStrip(text) ==
    IF text # <<>> /\ IsWs(text[Len(text)])
    THEN RStrip(SubSeq(text, 1, Len(text) - 1))
    ELSE text

\* str.strip()
Strip(text) == RStrip(LStrip(text))

(***************************************************************************)
(* json.loads: recursive descent over the tokens.                          *)
(***************************************************************************)
ParseOk(val, rest) == [ok |-> TRUE, val |-> val, rest |-> rest]

ParseFail == [ok |-> FALSE, val |-> JNull, rest |-> <<>>]

LitValue(s) ==
    CASE s = "true"  -> JBool(TRUE)
      [] s = "false" -> JBool(FALSE)
      [] OTHER       -> JNull

IsPunct(text, s) == text # <<>> /\ Head(text).k = "punct" /\ Head(text).s = s

RECURSIVE ParseValue(_), ParseElements(_, _), ParseMembers(_, _)
ParseValue(text) ==
    LET t == LStrip(text) IN
    IF t = <<>> THEN ParseFail
    ELSE LET h == Head(t) IN
         CASE h.k = "str" -> ParseOk(JStr(h.s), Tail(t))
           [] h.k = "num" -> ParseOk(JInt(h.n), Tail(t))
           [] h.k = "lit" -> ParseOk(LitValue(h.s), Tail(t))
           [] h.k = "punct" /\ h.s = "[" ->
                IF IsPunct(LStrip(Tail(t)), "]")
                THEN ParseOk(JList(<<>>), Tail(LStrip(Tail(t))))
                ELSE ParseElements(Tail(t), <<>>)
           [] h.k = "punct" /\ h.s = "{" ->
                IF IsPunct(LStrip(Tail(t)), "}")
                THEN ParseOk(JDict(EmptyMap), Tail(LStrip(Tail(t))))
                ELSE ParseMembers(Tail(t), EmptyMap)
           [] OTHER -> ParseFail

ParseElements(text, acc) ==
    LET r == ParseValue(text) IN
    IF ~r.ok THEN ParseFail
    ELSE LET t == LStrip(r.rest) IN
         IF IsPunct(t, ",") THEN ParseElements(Tail(t), Append(acc, r.val))
         ELSE IF IsPunct(t, "]") THEN ParseOk(JList(Append(acc, r.val)), Tail(t))
         ELSE ParseFail

ParseMembers(text, acc) ==
    LET t == LStrip(text) IN
    IF t = <<>> \/ Head(t).k # "str" THEN ParseFail
    ELSE LET key == Head(t).s
             c == LStrip(Tail(t))
         IN IF ~IsPunct(c, ":") THEN ParseFail
            ELSE LET r == ParseValue(Tail(c)) IN
                 IF ~r.ok THEN ParseFail
                 ELSE LET u == LStrip(r.rest)
                          \* a repeated key keeps its last value
                          more == (key :> r.val) @@ acc
                      IN IF IsPunct(u, ",") THEN ParseMembers(Tail(u), more)
                         ELSE IF IsPunct(u, "}") THEN ParseOk(JDict(more), Tail(u))
                         ELSE ParseFail

\* json.loads(text): [ok, val]; ok = FALSE is a raised JSONDecodeError
JsonLoads(text) ==
    LET r == ParseValue(text) IN
    IF r.ok /\ LStrip(r.rest) = <<>>
    THEN [ok |-> TRUE, val |-> r.val]
    ELSE [ok |-> FALSE, val |-> JNull]

(***************************************************************************)
(* Building JSON text (the emitter's side of the protocol).                *)
(***************************************************************************)
RECURSIVE Join(_, _)
Join(parts, sep) ==
    IF parts = <<>> THEN <<>>
    ELSE IF Len(parts) = 1 THEN parts[1]
    ELSE parts[1] \o sep \o Join(Tail(parts), sep)

Member(key, valueText) == <<S(key), P(":")>> \o valueText

ObjText(members) == <<P("{")>> \o Join(members, <<P(",")>>) \o <<P("}")>>

\* the protocol's message: {"schema_version":1,"type":T,"seq":n,"event":E}
MessageText(type, seq, eventText) ==
    ObjText(<<Member("schema_version", <<N(1)>>), Member("type", <<S(type)>>),
              Member("seq", <<N(seq)>>), Member("event", eventText)>>)

ToolCallFinishedText ==
    ObjText(<<Member("type", <<S("tool-call-finished")>>),
              Member("tool-name", <<S("x")>>),
              Member("status", <<S("completed")>>),
              Member("duration-ms", <<N(12)>>),
              Member("success", <<Lit("true")>>)>>)

ToolCallStartedText ==
    ObjText(<<Member("type", <<S("tool-call-started")>>),
              Member("tool-name", <<S("x")>>)>>)

SessionStartText ==
    ObjText(<<Member("type", <<S("session-start")>>),
              Member("cwd", <<S("/a")>>),
              Member("session-source", <<S("cli")>>),
              Member("thread-id", <<S("t1")>>)>>)

XPath == "/tmp/x.json"

\* a file of valid JSON that is no object
ListText == <<P("["), N(1), P("]")>>

\* a file cut short while being written: not valid JSON
TruncatedText == <<P("{"), S("type"), P(":")>>

\* The lines the input stream is drawn from; each ends with its newline.
LineText(name) ==
    CASE name = "blank"        -> <<NL>>
      [] name = "spaces"       -> <<SP, SP, NL>>
      [] name = "not_json"     -> <<Word("not"), SP, Word("json"), NL>>
      [] name = "event_seq1"   -> MessageText("hook-event", 1, ToolCallFinishedText) \o <<NL>>
      [] name = "other_seq2"   -> MessageText("other", 2, ObjText(<<>>)) \o <<NL>>
      [] name = "event_path"   ->
            MessageText("hook-event", 3,
                        ObjText(<<Member("payload_path", <<S(XPath)>>)>>)) \o <<NL>>
      [] name = "event_seq4"   -> <<SP>> \o MessageText("hook-event", 4, ToolCallStartedText) \o <<NL>>
      [] name = "json_list"    -> <<P("["), N(1), P("]"), NL>>
      [] name = "event_absent" ->
            ObjText(<<Member("schema_version", <<N(1)>>),
                      Member("type", <<S("hook-event")>>),
                      Member("seq", <<N(5)>>)>>) \o <<NL>>
      [] name = "event_null"   -> MessageText("hook-event", 6, <<Lit("null")>>) \o <<NL>>
      [] name = "event_number" -> MessageText("hook-event", 7, <<N(7)>>) \o <<NL>>

LineNames ==
    {"blank", "spaces", "not_json", "event_seq1", "other_seq2", "event_path",
     "event_seq4", "json_list"}

\* The filesystems the host may run against: the payload file is absent,
\* cut short, or complete.
FileSystems ==
    {EmptyMap, (XPath :> TruncatedText), (XPath :> SessionStartText)}

(***************************************************************************)
(* hook_host.py                                                            *)
(***************************************************************************)
\* How a call ends: it returns val, or raises exc; reads are the files it
\* opened on the way.
Returned(v) == [exc |-> "", val |-> v, reads |-> <<>>]

Raised(exc) == [exc |-> exc, val |-> JNull, reads |-> <<>>]

\* One read_text: the path opened, and the text found there (<<>>: no file).
FileRead(path, fs) ==
    [path |-> path, text |-> IF path \in DOMAIN fs THEN <<fs[path]>> ELSE <<>>]

\* (a resolver that kept the text of every file it had read and never read
\* a path twice)
ReadJsonFileCached(path, fs) ==
    LET earlier == {i \in 1..Len(reads) : reads[i].path = path /\ reads[i].text # <<>>}
        text == IF earlier # {}
                THEN reads[CHOOSE i \in earlier : \A j \in earlier : i <= j].text[1]
                ELSE fs[path]
        opened == IF earlier # {} THEN <<>> ELSE <<FileRead(path, fs)>>
    IN IF earlier = {} /\ path \notin DOMAIN fs
       THEN [Raised("FileNotFoundError") EXCEPT !.reads = opened]
       ELSE LET r == JsonLoads(text) IN
            IF r.ok THEN [Returned(r.val) EXCEPT !.reads = opened]
            ELSE [Raised("JSONDecodeError") EXCEPT !.reads = opened]

\* (a resolver that went on to the file that a payload file names)
ReadJsonFileFollows(path, fs) ==
    LET first == <<FileRead(path, fs)>> IN
    IF path \notin DOMAIN fs
    THEN [Raised("FileNotFoundError") EXCEPT !.reads = first]
    ELSE LET r == JsonLoads(fs[path]) IN
         IF ~r.ok THEN [Raised("JSONDecodeError") EXCEPT !.reads = first]
         ELSE LET next == IF IsDict(r.val)
                          THEN PyOr(DictGet(r.val, "payload_path"),
                                    DictGet(r.val, "payload-path"))
                          ELSE JNull
              IN IF IsStr(next) /\ next.s \in DOMAIN fs /\ JsonLoads(fs[next.s]).ok
                 THEN [Returned(JsonLoads(fs[next.s]).val)
                          EXCEPT !.reads = first \o <<FileRead(next.s, fs)>>]
                 ELSE [Returned(r.val) EXCEPT !.reads = first]

\* json.loads(pathlib.Path(path).read_text(encoding="utf-8"))
ReadJsonFile(path, fs) ==
    LET opened == <<FileRead(path, fs)>> IN
    IF path \notin DOMAIN fs
    THEN [Raised("FileNotFoundError") EXCEPT !.reads = opened]
    ELSE LET r == JsonLoads(fs[path]) IN
         IF r.ok THEN [Returned(r.val) EXCEPT !.reads = opened]
         ELSE [Raised("JSONDecodeError") EXCEPT !.reads = opened]

\* event_or_envelope.get("payload_path") or event_or_envelope.get("payload-path")
PayloadPathOf(e) == PyOr(DictGet(e, "payload_path"), DictGet(e, "payload-path"))

\* (a resolver that passed on an envelope only when it named a file)
ResolveDropsInline(event_or_envelope, fs) ==
    IF /\ IsDict(event_or_envelope)
       /\ IsStr(PayloadPathOf(event_or_envelope))
       /\ Truthy(PayloadPathOf(event_or_envelope))
    THEN ReadJsonFile(PayloadPathOf(event_or_envelope).s, fs)
    ELSE Returned(JDict(EmptyMap))

_resolve_event_payload(event_or_envelope, fs) ==
    IF /\ IsDict(event_or_envelope)
       /\ (HasKey(event_or_envelope, "payload_path")
           \/ HasKey(event_or_envelope, "payload-path"))
       /\ IsStr(PayloadPathOf(event_or_envelope))
       /\ Truthy(PayloadPathOf(event_or_envelope))
    THEN ReadJsonFile(PayloadPathOf(event_or_envelope).s, fs)
    ELSE IF IsDict(event_or_envelope) THEN Returned(event_or_envelope)
    ELSE Returned(JDict(EmptyMap))

\* One write to a text stream: which message, and the text it carries.
Note(kind, text) == [kind |-> kind, text |-> text]

\* What one pass of the loop body does up to the call of on_event:
\* step "continue" (next line), "call" (on_event(arg)) or "raise" (an
\* exception leaves main), with the writes to stderr and stdout on the way.
Pass(step, arg, exc, err, out) ==
    [step |-> step, arg |-> arg, exc |-> exc, err |-> err, out |-> out,
     reads |-> <<>>]

\* except Exception: (json.loads failed)
ParseFailure(raw_line) ==
    Pass("continue", JNull, "",
         <<Note("hook host: failed to parse JSON line", <<NL>>),
           Note("raw_line", raw_line \o <<NL>>)>>,
         <<>>)

\* event = _resolve_event_payload(msg.get("event")); try: on_event(event)
Dispatch(msg, fs) ==
    LET r == _resolve_event_payload(DictGet(msg, "event"), fs) IN
    IF r.exc # ""
    THEN [Pass("raise", JNull, r.exc, <<>>, <<>>) EXCEPT !.reads = r.reads]
    ELSE [Pass("call", r.val, "", <<>>, <<>>) EXCEPT !.reads = r.reads]

\* (a host that reported every message it skips)
CheckTypeReportsSkip(msg, fs) ==
    IF ~IsDict(msg) THEN Pass("raise", JNull, "AttributeError", <<>>, <<>>)
    ELSE IF DictGet(msg, "type") # JStr("hook-event")
    THEN Pass("continue", JNull, "",
              <<Note("hook host: skipped message", <<NL>>)>>, <<>>)
    ELSE Dispatch(msg, fs)

\* if msg.get("type") != "hook-event": continue
\* (msg.get raises AttributeError when msg is no dict)
CheckType(msg, fs) ==
    IF ~IsDict(msg) THEN Pass("raise", JNull, "AttributeError", <<>>, <<>>)
    ELSE IF DictGet(msg, "type") # JStr("hook-event")
    THEN Pass("continue", JNull, "", <<>>, <<>>)
    ELSE Dispatch(msg, fs)

\* (a host that did not skip blank lines)
LoopBodyParsesBlank(line, fs) ==
    LET raw_line == Strip(line)
        parsed == JsonLoads(raw_line)
    IN IF ~parsed.ok THEN ParseFailure(raw_line) ELSE CheckType(parsed.val, fs)

LoopBody(line, fs) ==
    LET raw_line == Strip(line) IN
    IF raw_line = <<>> THEN Pass("continue", JNull, "", <<>>, <<>>)
    ELSE LET parsed == JsonLoads(raw_line) IN
         IF ~parsed.ok THEN ParseFailure(raw_line)
         ELSE CheckType(parsed.val, fs)

\* (a host that started the handler and went on reading)
PcDuringCallDetached == "loop"

\* on_event(event) is a plain call: control is in the handler until it
\* returns or raises.
PcDuringCall == "handler"

\* (a host with no try around on_event: the exception leaves main)
HandlerFailureUncaught ==
    [pc |-> "exit", status |-> <<1>>,
     err |-> <<Note("Traceback", <<S("Exception")>>)>>]

\* (a host that left the loop after reporting a handler failure)
HandlerFailureBreaks ==
    [pc |-> "exit", status |-> <<0>>,
     err |-> <<Note("hook host: user hook raised", <<NL>>), Note("traceback", <<>>)>>]

\* except Exception: around on_event(event)
HandlerFailure ==
    [pc |-> "loop", status |-> <<>>,
     err |-> <<Note("hook host: user hook raised", <<NL>>), Note("traceback", <<>>)>>]

\* An exception that leaves main: the interpreter prints the traceback on
\* stderr and the process ends with status 1.
Uncaught(exc) == <<Note("Traceback", <<S(exc)>>)>>

Invocation(line, arg) == [line |-> line, arg |-> arg, outcome |-> "running"]

RunningCalls == {i \in 1..Len(calls) : calls[i].outcome = "running"}

ArgvLens == {1, 2, 3}

\* what argv[1] names: a module with a callable on_event, with an on_event
\* that is no callable, or with none
UserModules == {"callable", "not_callable", "no_on_event"}

\* main as called: the length of sys.argv and what argv[1] names
MainCall(argc, module) == [op |-> "main", argc |-> argc, module |-> module]

\* (a gate that took whatever the module has under on_event)
StartUpUnchecked(argc, module) ==
    IF argc # 2
    THEN [status |-> <<2>>, pc |-> "exit", on_event |-> "unset",
          err |-> <<Note("usage", <<NL>>)>>]
    ELSE [status |-> <<>>, pc |-> "loop", on_event |-> "callable", err |-> <<>>]

\* main, up to the loop: the two checks that return 2
StartUp(argc, module) ==
    IF argc # 2
    THEN [status |-> <<2>>, pc |-> "exit", on_event |-> "unset",
          err |-> <<Note("usage", <<NL>>)>>]
    ELSE IF module # "callable"
    THEN [status |-> <<2>>, pc |-> "exit", on_event |-> "unset",
          err |-> <<Note("must define a callable on_event", <<NL>>)>>]
    ELSE [status |-> <<>>, pc |-> "loop", on_event |-> "callable", err |-> <<>>]

Start ==
    /\ pc = "start"
    /\ \E n \in ArgvLens, m \in UserModules :
         /\ fn' = MainCall(n, m)
         /\ stderr' = stderr \o StartUp(n, m).err
         /\ status' = StartUp(n, m).status
         /\ pc' = StartUp(n, m).pc
         /\ on_event' = StartUp(n, m).on_event
    /\ UNCHANGED <<files, stdin, lineNo, calls, stdout, reads>>

\* for raw_line in sys.stdin: ... up to the call of on_event
ReadLine ==
    /\ pc = "loop"
    /\ lineNo < Len(stdin)
    /\ LET it == LoopBody(LineText(stdin[lineNo + 1]), files) IN
         /\ lineNo' = lineNo + 1
         /\ stdout' = stdout \o it.out
         /\ reads' = reads \o it.reads
         /\ IF it.step = "call"
            THEN /\ calls' = Append(calls, Invocation(lineNo + 1, it.arg))
                 /\ pc' = PcDuringCall
                 /\ stderr' = stderr \o it.err
                 /\ UNCHANGED status
            ELSE IF it.step = "raise"
            THEN /\ pc' = "exit"
                 /\ status' = <<1>>
                 /\ stderr' = stderr \o it.err \o Uncaught(it.exc)
                 /\ UNCHANGED calls
            ELSE /\ pc' = "loop"
                 /\ stderr' = stderr \o it.err
                 /\ UNCHANGED <<calls, status>>
    /\ UNCHANGED <<files, stdin, on_event, fn>>

\* on_event(event) returns
HandlerReturns ==
    /\ \E i \in RunningCalls :
         calls' = [calls EXCEPT ![i].outcome = "returned"]
    /\ pc' = "loop"
    /\ UNCHANGED <<files, stdin, on_event, lineNo, stderr, stdout, status, reads, fn>>

\* on_event(event) raises an Exception
HandlerRaises ==
    /\ \E i \in RunningCalls :
         calls' = [calls EXCEPT ![i].outcome = "raised"]
    /\ pc' = HandlerFailure.pc
    /\ status' = HandlerFailure.status
    /\ stderr' = stderr \o HandlerFailure.err
    /\ UNCHANGED <<files, stdin, on_event, lineNo, stdout, reads, fn>>

\* sys.stdin is exhausted: return 0
EndOfStream ==
    /\ pc = "loop"
    /\ lineNo = Len(stdin)
    /\ pc' = "exit"
    /\ status' = <<0>>
    /\ UNCHANGED <<files, stdin, on_event, lineNo, calls, stderr, stdout, reads, fn>>

MaxLen == 3

RECURSIVE SeqsUpTo(_, _)
SeqsUpTo(S0, n) ==
    IF n = 0 THEN {<<>>}
    ELSE LET shorter == SeqsUpTo(S0, n - 1) IN
         shorter \cup {Append(q, x) : q \in {r \in shorter : Len(r) = n - 1}, x \in S0}

NoCall == [op |-> "none"]

Init ==
    /\ files \in FileSystems
    /\ stdin \in SeqsUpTo(LineNames, MaxLen)
    /\ pc = "start"
    /\ on_event = "unset"
    /\ lineNo = 0
    /\ calls = <<>>
    /\ stderr = <<>>
    /\ stdout = <<>>
    /\ status = <<>>
    /\ reads = <<>>
    /\ fn = NoCall

Next == Start \/ ReadLine \/ HandlerReturns \/ HandlerRaises \/ EndOfStream

Spec == Init /\ [][Next]_vars

(***************************************************************************)
(* xcodex_hooks.py: read_payload (the copy under examples/hooks is the     *)
(* same code).                                                             *)
(***************************************************************************)
\* (a helper that followed the indirection whenever the key is there)
ReadPayloadByKey(raw, fs) ==
    LET text == IF raw = <<>> THEN ObjText(<<>>) ELSE raw
        parsed == JsonLoads(text)
    IN IF ~parsed.ok THEN Raised("JSONDecodeError")
       ELSE IF ~IsDict(parsed.val) THEN Raised("AttributeError")
       ELSE IF HasKey(parsed.val, "payload-path")
       THEN IF IsStr(DictGet(parsed.val, "payload-path"))
            THEN ReadJsonFile(DictGet(parsed.val, "payload-path").s, fs)
            ELSE Raised("TypeError")
       ELSE Returned(parsed.val)

read_payload(raw, fs) ==
    LET text == IF raw = <<>> THEN ObjText(<<>>) ELSE raw    \* raw or "{}"
        parsed == JsonLoads(text)
    IN IF ~parsed.ok THEN Raised("JSONDecodeError")
       \* payload.get on a value that is no dict
       ELSE IF ~IsDict(parsed.val) THEN Raised("AttributeError")
       ELSE LET payload_path == DictGet(parsed.val, "payload-path") IN
            IF Truthy(payload_path)
            THEN \* pathlib.Path(x) takes a str
                 IF IsStr(payload_path) THEN ReadJsonFile(payload_path.s, fs)
                 ELSE Raised("TypeError")
            ELSE Returned(parsed.val)

(***************************************************************************)
(* The helpers called on their own: one call of _resolve_event_payload or  *)
(* of read_payload on an envelope, against a filesystem.                   *)
(***************************************************************************)
YPath == "/tmp/y.json"

Absent == [t |-> "absent"]

\* what an envelope may hold under either spelling of the indirection key
PathValues ==
    {Absent, JNull, JStr(""), JStr(XPath), JStr(YPath), JInt(0), JInt(5),
     JBool(TRUE), JList(<<>>)}

Opt(key, v) == IF v = Absent THEN EmptyMap ELSE (key :> v)

Envelope(underscore, hyphen, inline) ==
    JDict(Opt("payload_path", underscore) @@ Opt("payload-path", hyphen)
          @@ (IF inline THEN ("type" :> JStr("session-end")) ELSE EmptyMap))

Envelopes ==
    {Envelope(u, h, i) : u \in PathValues, h \in PathValues, i \in BOOLEAN}

\* json.dumps, the emitter's side
RECURSIVE KeySeq(_)
KeySeq(keys) ==
    IF keys = {} THEN <<>>
    ELSE LET k == CHOOSE x \in keys : TRUE IN <<k>> \o KeySeq(keys \ {k})

RECURSIVE JsonDumps(_)
JsonDumps(v) ==
    CASE v.t = "null" -> <<Lit("null")>>
      [] v.t = "bool" -> <<Lit(IF v.b THEN "true" ELSE "false")>>
      [] v.t = "int"  -> <<N(v.n)>>
      [] v.t = "str"  -> <<S(v.s)>>
      [] v.t = "list" ->
            <<P("[")>> \o Join([i \in 1..Len(v.l) |-> JsonDumps(v.l[i])], <<P(",")>>)
            \o <<P("]")>>
      [] v.t = "dict" ->
            LET ks == KeySeq(DOMAIN v.d) IN
            ObjText([i \in 1..Len(ks) |-> Member(ks[i], JsonDumps(v.d[ks[i]]))])

\* what a hook script may find on its stdin
StdinTexts ==
    {JsonDumps(e) : e \in Envelopes}
    \cup {<<>>, <<SP>>, <<P("["), P("]")>>, <<Word("not"), SP, Word("json")>>}

\* what a payload file holds when its JSON carries an indirection field of
\* its own, under either spelling
NestedEnvelopes ==
    {Envelope(JStr(YPath), Absent, TRUE), Envelope(Absent, JStr(YPath), TRUE)}

HelperFileSystems ==
    {(XPath :> SessionStartText) @@ (YPath :> ToolCallStartedText),
     (YPath :> ToolCallStartedText),
     (XPath :> TruncatedText) @@ (YPath :> ToolCallStartedText)}
    \cup {(XPath :> JsonDumps(e)) @@ (YPath :> ToolCallStartedText) :
             e \in NestedEnvelopes}

Pending == [exc |-> "pending", val |-> JNull, reads |-> <<>>]

HelperCall(op, input) == [op |-> op, input |-> input, done |-> FALSE, result |-> Pending]

InitHelpers ==
    /\ files \in HelperFileSystems
    /\ fn \in {HelperCall("resolve", e) : e \in Envelopes \cup {JNull, JStr(XPath)}}
           \cup {HelperCall("read_payload", raw) : raw \in StdinTexts}
    /\ stdin = <<>>
    /\ pc = "lib"
    /\ on_event = "unset"
    /\ lineNo = 0
    /\ calls = <<>>
    /\ stderr = <<>>
    /\ stdout = <<>>
    /\ status = <<>>
    /\ reads = <<>>

CallResolve ==
    /\ fn.op = "resolve"
    /\ ~fn.done
    /\ fn' = [fn EXCEPT !.done = TRUE,
                        !.result = _resolve_event_payload(fn.input, files)]
    /\ reads' = reads \o fn'.result.reads
    /\ UNCHANGED hostVars

CallReadPayload ==
    /\ fn.op = "read_payload"
    /\ ~fn.done
    /\ fn' = [fn EXCEPT !.done = TRUE, !.result = read_payload(fn.input, files)]
    /\ reads' = reads \o fn'.result.reads
    /\ UNCHANGED hostVars

NextHelpers == CallResolve \/ CallReadPayload

SpecHelpers == InitHelpers /\ [][NextHelpers]_vars

(***************************************************************************)
(* xcodex_hooks_models.py: the typed binder parse_hook_event and its       *)
(* coercion helpers.  Python values are the JSON values, None (JNull) and  *)
(* floats.                                                                 *)
(***************************************************************************)
\* a float, in tenths: 1.5 is JFloat(15), -0.5 is JFloat(-5)
JFloat(tenths) == [t |-> "float", tenths |-> tenths]

\* a float that is no number of finite size: "inf" (json.loads of 1e999 or
\* Infinity), "-inf", "nan"
JNonFinite(name) == [t |-> "nonfinite", name |-> name]

\* In the place of the value of an expression: evaluating it raised exc.
Raises(exc) == [t |-> "raise", exc |-> exc]

\* The characters of a string.  A string is an atom to TLC, so the strings
\* of the model that hold a digit, a sign, a blank, a dot or a capital are
\* spelled out here; every other string stands for one character that is
\* none of these.
Chars(s) ==
    CASE s = "" -> <<>>
      [] s = " 3 " -> <<" ", "3", " ">>
      [] s = "3" -> <<"3">>
      [] s = "-4" -> <<"-", "4">>
      [] s = "+7" -> <<"+", "7">>
      [] s = "12" -> <<"1", "2">>
      [] s = "1.5" -> <<"1", ".", "5">>
      [] s = "abc" -> <<"a", "b", "c">>
      [] s = "0" -> <<"0">>
      [] s = "1" -> <<"1">>
      [] s = "True" -> <<"T", "r", "u", "e">>
      [] s = "TRUE" -> <<"T", "R", "U", "E">>
      [] s = " Yes " -> <<" ", "Y", "e", "s", " ">>
      [] s = "No" -> <<"N", "o">>
      [] s = "OFF" -> <<"O", "F", "F">>
      [] s = " on" -> <<" ", "o", "n">>
      [] s = "1 2" -> <<"1", " ", "2">>
      [] s = "-" -> <<"-">>
      [] OTHER -> <<s>>

RECURSIVE Text(_)
Text(cs) == IF cs = <<>> THEN "" ELSE cs[1] \o Text(Tail(cs))

\* str.isspace
IsSpaceChar(c) == c \in {" ", "\t", "\n", "\r"}

RECURSIVE LStripChars(_)
LStripChars(cs) ==
    IF cs # <<>> /\ IsSpaceChar(Head(cs)) THEN LStripChars(Tail(cs)) ELSE cs

RECURSIVE RStripChars(_)
RStripChars(cs) ==
    IF cs # <<>> /\ IsSpaceChar(cs[Len(cs)])
    THEN RStripChars(SubSeq(cs, 1, Len(cs) - 1)) ELSE cs

\* str.strip()
StripChars(cs) == RStripChars(LStripChars(cs))

LowerChar(c) ==
    CASE c = "A" -> "a"
      [] c = "B" -> "b"
      [] c = "C" -> "c"
      [] c = "D" -> "d"
      [] c = "E" -> "e"
      [] c = "F" -> "f"
      [] c = "G" -> "g"
      [] c = "H" -> "h"
      [] c = "I" -> "i"
      [] c = "J" -> "j"
      [] c = "K" -> "k"
      [] c = "L" -> "l"
      [] c = "M" -> "m"
      [] c = "N" -> "n"
      [] c = "O" -> "o"
      [] c = "P" -> "p"
      [] c = "Q" -> "q"
      [] c = "R" -> "r"
      [] c = "S" -> "s"
      [] c = "T" -> "t"
      [] c = "U" -> "u"
      [] c = "V" -> "v"
      [] c = "W" -> "w"
      [] c = "X" -> "x"
      [] c = "Y" -> "y"
      [] c = "Z" -> "z"
      [] OTHER -> c

\* str.lower()
LowerChars(cs) == [i \in 1..Len(cs) |-> LowerChar(cs[i])]

IsDigit(c) == c \in {"0", "1", "2", "3", "4", "5", "6", "7", "8", "9"}

DigitValue(c) ==
    CASE c = "0" -> 0
      [] c = "1" -> 1
      [] c = "2" -> 2
      [] c = "3" -> 3
      [] c = "4" -> 4
      [] c = "5" -> 5
      [] c = "6" -> 6
      [] c = "7" -> 7
      [] c = "8" -> 8
      [] c = "9" -> 9

RECURSIVE DigitsValue(_, _)
DigitsValue(cs, acc) ==
    IF cs = <<>> THEN acc
    ELSE DigitsValue(Tail(cs), acc * 10 + DigitValue(Head(cs)))

\* int(s, 10) of a str: blanks around, an optional sign, decimal digits;
\* ok = FALSE is a raised ValueError
PyIntOfStr(s) ==
    LET cs == StripChars(Chars(s))
        signed == cs # <<>> /\ Head(cs) \in {"+", "-"}
        digits == IF signed THEN Tail(cs) ELSE cs
    IN IF digits # <<>> /\ \A i \in 1..Len(digits) : IsDigit(digits[i])
       THEN [ok |-> TRUE,
             n |-> IF signed /\ Head(cs) = "-" THEN 0 - DigitsValue(digits, 0)
                   ELSE DigitsValue(digits, 0)]
       ELSE [ok |-> FALSE, n |-> 0]

\* int(f) of a float: the fraction is dropped, towards zero
PyIntOfFloat(tenths) ==
    IF tenths >= 0 THEN tenths \div 10 ELSE 0 - ((0 - tenths) \div 10)

\* int(x)
PyInt(v) ==
    CASE v.t = "int"   -> Returned(JInt(v.n))
      [] v.t = "bool"  -> Returned(JInt(IF v.b THEN 1 ELSE 0))
      [] v.t = "float" -> Returned(JInt(PyIntOfFloat(v.tenths)))
      [] v.t = "nonfinite" ->
            Raised(IF v.name = "nan" THEN "ValueError" ELSE "OverflowError")
      [] v.t = "str"   ->
            IF PyIntOfStr(v.s).ok THEN Returned(JInt(PyIntOfStr(v.s).n))
            ELSE Raised("ValueError")
      [] OTHER         -> Raised("TypeError")

RECURSIVE JoinText(_, _)
JoinText(parts, sep) ==
    IF parts = <<>> THEN ""
    ELSE IF Len(parts) = 1 THEN parts[1]
    ELSE parts[1] \o sep \o JoinText(Tail(parts), sep)

\* repr(x); the items of a dict in the order of KeySeq
RECURSIVE PyRepr(_)
PyRepr(v) ==
    CASE v.t = "null"  -> "None"
      [] v.t = "bool"  -> IF v.b THEN "True" ELSE "False"
      [] v.t = "int"   -> ToString(v.n)
      [] v.t = "float" ->
            LET a == IF v.tenths >= 0 THEN v.tenths ELSE 0 - v.tenths IN
            (IF v.tenths < 0 THEN "-" ELSE "")
            \o ToString(a \div 10) \o "." \o ToString(a % 10)
      [] v.t = "nonfinite" -> v.name
      [] v.t = "str"   -> "'" \o v.s \o "'"
      [] v.t = "list"  ->
            "[" \o JoinText([i \in 1..Len(v.l) |-> PyRepr(v.l[i])], ", ") \o "]"
      [] v.t = "dict"  ->
            LET ks == KeySeq(DOMAIN v.d) IN
            "{" \o JoinText([i \in 1..Len(ks) |->
                               "'" \o ks[i] \o "': " \o PyRepr(v.d[ks[i]])], ", ")
            \o "}"

\* str(x)
PyStr(v) == IF IsStr(v) THEN v.s ELSE PyRepr(v)

_as_str(value) ==
    IF value = JNull THEN JNull
    ELSE IF IsStr(value) THEN value
    ELSE JStr(PyStr(value))

_as_int(value) ==
    CASE value.t = "null"  -> JNull
      [] value.t = "bool"  -> JInt(IF value.b THEN 1 ELSE 0)
      [] value.t = "int"   -> value
      [] value.t = "float" -> JInt(PyIntOfFloat(value.tenths))
      \* int(value) outside any try
      [] value.t = "nonfinite" ->
            Raises(IF value.name = "nan" THEN "ValueError" ELSE "OverflowError")
      [] value.t = "str"   ->
            IF PyIntOfStr(value.s).ok THEN JInt(PyIntOfStr(value.s).n) ELSE JNull
      [] OTHER             -> JNull

\* (a coercion that compared the string as it is written)
AsBoolCaseSensitive(value) ==
    CASE value.t = "null" -> JNull
      [] value.t = "bool" -> value
      [] value.t = "int"  -> JBool(value.n # 0)
      [] value.t = "str"  ->
            LET v == Text(StripChars(Chars(value.s))) IN
            IF v \in {"true", "1", "yes", "y", "on"} THEN JBool(TRUE)
            ELSE IF v \in {"false", "0", "no", "n", "off"} THEN JBool(FALSE)
            ELSE JNull
      [] OTHER            -> JNull

_as_bool(value) ==
    CASE value.t = "null" -> JNull
      [] value.t = "bool" -> value
      [] value.t = "int"  -> JBool(value.n # 0)
      [] value.t = "str"  ->
            LET v == Text(LowerChars(StripChars(Chars(value.s)))) IN
            IF v \in {"true", "1", "yes", "y", "on"} THEN JBool(TRUE)
            ELSE IF v \in {"false", "0", "no", "n", "off"} THEN JBool(FALSE)
            ELSE JNull
      [] OTHER            -> JNull

\* (a coercion that kept a None for every element that is None)
AsStrListKeepsNone(value) ==
    IF value = JNull THEN JNull
    ELSE IF value.t = "list"
    THEN JList([i \in 1..Len(value.l) |-> _as_str(value.l[i])])
    ELSE JNull

_as_str_list(value) ==
    IF value = JNull THEN JNull
    ELSE IF value.t = "list"
    THEN JList(SelectSeq([i \in 1..Len(value.l) |-> _as_str(value.l[i])],
                         LAMBDA s : s # JNull))
    ELSE JNull

\* The dataclasses of the variants: event_type: Literal[...] of each, and
\* the attributes each declares after those of HookEventBase (all
\* Optional, default None).
DeclaredEventType(variant) ==
    CASE variant = "AgentTurnCompleteHookEvent" -> "agent-turn-complete"
      [] variant = "ApprovalRequestedHookEvent" -> "approval-requested"
      [] variant = "ModelRequestStartedHookEvent" -> "model-request-started"
      [] variant = "ModelResponseCompletedHookEvent" -> "model-response-completed"
      [] variant = "SessionEndHookEvent" -> "session-end"
      [] variant = "SessionStartHookEvent" -> "session-start"
      [] variant = "ToolCallFinishedHookEvent" -> "tool-call-finished"
      [] variant = "ToolCallStartedHookEvent" -> "tool-call-started"

DeclaredFields(variant) ==
    CASE variant = "AgentTurnCompleteHookEvent" ->
            {"cwd", "input_messages", "last_assistant_message",
             "thread_id", "turn_id"}
      [] variant = "ApprovalRequestedHookEvent" ->
            {"approval_policy", "call_id", "command", "cwd",
             "grant_root", "kind", "message", "paths",
             "proposed_execpolicy_amendment", "reason", "request_id",
             "sandbox_policy", "server_name", "thread_id", "turn_id"}
      [] variant = "ModelRequestStartedHookEvent" ->
            {"attempt", "cwd", "has_output_schema", "model",
             "model_request_id", "parallel_tool_calls",
             "prompt_input_item_count", "provider", "thread_id",
             "tool_count", "turn_id"}
      [] variant = "ModelResponseCompletedHookEvent" ->
            {"attempt", "cwd", "model_request_id", "needs_follow_up",
             "response_id", "thread_id", "token_usage", "turn_id"}
      [] variant = "SessionEndHookEvent" ->
            {"cwd", "session_source", "thread_id"}
      [] variant = "SessionStartHookEvent" ->
            {"cwd", "session_source", "thread_id"}
      [] variant = "ToolCallFinishedHookEvent" ->
            {"attempt", "call_id", "cwd", "duration_ms",
             "model_request_id", "output_bytes", "output_preview",
             "status", "success", "thread_id", "tool_name",
             "turn_id"}
      [] variant = "ToolCallStartedHookEvent" ->
            {"attempt", "call_id", "cwd", "model_request_id",
             "thread_id", "tool_name", "turn_id"}
      [] variant = "UnknownHookEvent" -> {}

\* the discriminants parse_hook_event has a branch for
KnownEventTypes ==
    {"agent-turn-complete", "approval-requested",
     "model-request-started", "model-response-completed",
     "session-end", "session-start", "tool-call-finished",
     "tool-call-started"}

\* the dataclass each branch constructs
VariantOf(event_type) ==
    CASE event_type = "agent-turn-complete" -> "AgentTurnCompleteHookEvent"
      [] event_type = "approval-requested" -> "ApprovalRequestedHookEvent"
      [] event_type = "model-request-started" -> "ModelRequestStartedHookEvent"
      [] event_type = "model-response-completed" -> "ModelResponseCompletedHookEvent"
      [] event_type = "session-end" -> "SessionEndHookEvent"
      [] event_type = "session-start" -> "SessionStartHookEvent"
      [] event_type = "tool-call-finished" -> "ToolCallFinishedHookEvent"
      [] event_type = "tool-call-started" -> "ToolCallStartedHookEvent"

\* event_type=<literal> of each branch
EventTypeLiteral(event_type) ==
    CASE event_type = "agent-turn-complete" -> "agent-turn-complete"
      [] event_type = "approval-requested" -> "approval-requested"
      [] event_type = "model-request-started" -> "model-request-started"
      [] event_type = "model-response-completed" -> "model-response-completed"
      [] event_type = "session-end" -> "session-end"
      [] event_type = "session-start" -> "session-start"
      [] event_type = "tool-call-finished" -> "tool-call-finished"
      [] event_type = "tool-call-started" -> "tool-call-started"

\* (branches that passed only the common keys to extras_for)
KnownKeysCommonOnly(event_type) == {"schema-version", "event-id", "timestamp", "type"}

\* the set literal each branch passes to extras_for
KnownKeys(event_type) ==
    CASE event_type = "agent-turn-complete" ->
            {"cwd", "event-id", "input-messages",
             "last-assistant-message", "schema-version", "thread-id",
             "timestamp", "turn-id", "type"}
      [] event_type = "approval-requested" ->
            {"approval-policy", "call-id", "command", "cwd",
             "event-id", "grant-root", "kind", "message", "paths",
             "proposed-execpolicy-amendment", "reason", "request-id",
             "sandbox-policy", "schema-version", "server-name",
             "thread-id", "timestamp", "turn-id", "type"}
      [] event_type = "model-request-started" ->
            {"attempt", "cwd", "event-id", "has-output-schema",
             "model", "model-request-id", "parallel-tool-calls",
             "prompt-input-item-count", "provider", "schema-version",
             "thread-id", "timestamp", "tool-count", "turn-id",
             "type"}
      [] event_type = "model-response-completed" ->
            {"attempt", "cwd", "event-id", "model-request-id",
             "needs-follow-up", "response-id", "schema-version",
             "thread-id", "timestamp", "token-usage", "turn-id",
             "type"}
      [] event_type = "session-end" ->
            {"cwd", "event-id", "schema-version", "session-source",
             "thread-id", "timestamp", "type"}
      [] event_type = "session-start" ->
            {"cwd", "event-id", "schema-version", "session-source",
             "thread-id", "timestamp", "type"}
      [] event_type = "tool-call-finished" ->
            {"attempt", "call-id", "cwd", "duration-ms", "event-id",
             "model-request-id", "output-bytes", "output-preview",
             "schema-version", "status", "success", "thread-id",
             "timestamp", "tool-name", "turn-id", "type"}
      [] event_type = "tool-call-started" ->
            {"attempt", "call-id", "cwd", "event-id",
             "model-request-id", "schema-version", "thread-id",
             "timestamp", "tool-name", "turn-id", "type"}

\* One keyword argument of a branch: attr=conv(payload.get(key)); conv "any"
\* is payload.get(key) as it is.
Field(attr, key, conv) == [attr |-> attr, key |-> key, conv |-> conv]

\* the keyword arguments of each branch after raw and extras
FieldsOf(event_type) ==
    CASE event_type = "agent-turn-complete" ->
            <<Field("cwd", "cwd", "_as_str"),
              Field("input_messages", "input-messages", "_as_str_list"),
              Field("last_assistant_message", "last-assistant-message", "_as_str"),
              Field("thread_id", "thread-id", "_as_str"),
              Field("turn_id", "turn-id", "_as_str")>>
      [] event_type = "approval-requested" ->
            <<Field("approval_policy", "approval-policy", "any"),
              Field("call_id", "call-id", "_as_str"),
              Field("command", "command", "_as_str_list"),
              Field("cwd", "cwd", "_as_str"),
              Field("grant_root", "grant-root", "_as_str"),
              Field("kind", "kind", "_as_str"),
              Field("message", "message", "_as_str"),
              Field("paths", "paths", "_as_str_list"),
              Field("proposed_execpolicy_amendment", "proposed-execpolicy-amendment", "_as_str_list"),
              Field("reason", "reason", "_as_str"),
              Field("request_id", "request-id", "_as_str"),
              Field("sandbox_policy", "sandbox-policy", "any"),
              Field("server_name", "server-name", "_as_str"),
              Field("thread_id", "thread-id", "_as_str"),
              Field("turn_id", "turn-id", "_as_str")>>
      [] event_type = "model-request-started" ->
            <<Field("attempt", "attempt", "_as_int"),
              Field("cwd", "cwd", "_as_str"),
              Field("has_output_schema", "has-output-schema", "_as_bool"),
              Field("model", "model", "_as_str"),
              Field("model_request_id", "model-request-id", "_as_str"),
              Field("parallel_tool_calls", "parallel-tool-calls", "_as_bool"),
              Field("prompt_input_item_count", "prompt-input-item-count", "_as_int"),
              Field("provider", "provider", "_as_str"),
              Field("thread_id", "thread-id", "_as_str"),
              Field("tool_count", "tool-count", "_as_int"),
              Field("turn_id", "turn-id", "_as_str")>>
      [] event_type = "model-response-completed" ->
            <<Field("attempt", "attempt", "_as_int"),
              Field("cwd", "cwd", "_as_str"),
              Field("model_request_id", "model-request-id", "_as_str"),
              Field("needs_follow_up", "needs-follow-up", "_as_bool"),
              Field("response_id", "response-id", "_as_str"),
              Field("thread_id", "thread-id", "_as_str"),
              Field("token_usage", "token-usage", "any"),
              Field("turn_id", "turn-id", "_as_str")>>
      [] event_type = "session-end" ->
            <<Field("cwd", "cwd", "_as_str"),
              Field("session_source", "session-source", "_as_str"),
              Field("thread_id", "thread-id", "_as_str")>>
      [] event_type = "session-start" ->
            <<Field("cwd", "cwd", "_as_str"),
              Field("session_source", "session-source", "_as_str"),
              Field("thread_id", "thread-id", "_as_str")>>
      [] event_type = "tool-call-finished" ->
            <<Field("attempt", "attempt", "_as_int"),
              Field("call_id", "call-id", "_as_str"),
              Field("cwd", "cwd", "_as_str"),
              Field("duration_ms", "duration-ms", "_as_int"),
              Field("model_request_id", "model-request-id", "_as_str"),
              Field("output_bytes", "output-bytes", "_as_int"),
              Field("output_preview", "output-preview", "_as_str"),
              Field("status", "status", "_as_str"),
              Field("success", "success", "_as_bool"),
              Field("thread_id", "thread-id", "_as_str"),
              Field("tool_name", "tool-name", "_as_str"),
              Field("turn_id", "turn-id", "_as_str")>>
      [] event_type = "tool-call-started" ->
            <<Field("attempt", "attempt", "_as_int"),
              Field("call_id", "call-id", "_as_str"),
              Field("cwd", "cwd", "_as_str"),
              Field("model_request_id", "model-request-id", "_as_str"),
              Field("thread_id", "thread-id", "_as_str"),
              Field("tool_name", "tool-name", "_as_str"),
              Field("turn_id", "turn-id", "_as_str")>>

\* conv(value) of one keyword argument
Coerce(conv, value) ==
    CASE conv = "_as_str"      -> _as_str(value)
      [] conv = "_as_int"      -> _as_int(value)
      [] conv = "_as_bool"     -> _as_bool(value)
      [] conv = "_as_str_list" -> _as_str_list(value)
      [] conv = "any"          -> value

\* the keyword arguments of a branch, evaluated: attribute -> value
BoundFields(event_type, payload) ==
    LET fs == FieldsOf(event_type) IN
    [a \in {fs[i].attr : i \in 1..Len(fs)} |->
        LET f == CHOOSE x \in {fs[i] : i \in 1..Len(fs)} : x.attr = a
        IN Coerce(f.conv, DictGet(payload, f.key))]

\* the exception of the first keyword argument whose evaluation raises
\* ("": none does)
RECURSIVE FirstRaise(_, _)
FirstRaise(fs, payload) ==
    IF fs = <<>> THEN ""
    ELSE LET v == Coerce(Head(fs).conv, DictGet(payload, Head(fs).key)) IN
         IF v.t = "raise" THEN v.exc ELSE FirstRaise(Tail(fs), payload)

\* A typed event: the dataclass, the six common attributes, and the
\* attributes of the variant.
HookEvent(variant, schema_version, event_id, timestamp, event_type, raw, extras, fields) ==
    [variant |-> variant, schema_version |-> schema_version,
     event_id |-> event_id, timestamp |-> timestamp, event_type |-> event_type,
     raw |-> raw, extras |-> extras, fields |-> fields]

\* (a copy that left out the items holding None)
DictCopyDropsNone(payload) ==
    JDict([k \in {x \in DOMAIN payload.d : payload.d[x] # JNull} |-> payload.d[k]])

\* raw = dict(payload): a new dict with the items of payload
DictCopy(payload) == JDict([k \in DOMAIN payload.d |-> payload.d[k]])

base_known == {"schema-version", "event-id", "timestamp", "type"}

\* (an extras dict kept between calls: the keys of the event bound before
\* stay in it)
ExtrasKeptBetweenCalls(raw, known) ==
    LET own == [k \in DOMAIN raw.d \ known |-> raw.d[k]]
        before == IF fn.op = "bind" /\ fn.results # <<>>
                     /\ fn.results[Len(fn.results)].exc = ""
                  THEN fn.results[Len(fn.results)].val.extras.d
                  ELSE EmptyMap
    IN JDict(own @@ before)

\* {k: v for k, v in raw.items() if k not in known}
extras_for(raw, known) == JDict([k \in DOMAIN raw.d \ known |-> raw.d[k]])

parse_hook_event(payload) ==
    LET schema_version == PyInt(PyOr(DictGet(payload, "schema-version"), JInt(0)))
        event_id == JStr(PyStr(PyOr(DictGet(payload, "event-id"), JStr(""))))
        timestamp == JStr(PyStr(PyOr(DictGet(payload, "timestamp"), JStr(""))))
        event_type == PyStr(PyOr(DictGet(payload, "type"), JStr("")))
        raw == DictCopy(payload)
    IN IF schema_version.exc # "" THEN Raised(schema_version.exc)
       ELSE IF event_type = ""
       THEN Returned(HookEvent("UnknownHookEvent", schema_version.val, event_id,
                               timestamp, JStr(event_type), raw,
                               extras_for(raw, base_known), EmptyMap))
       ELSE IF event_type \in KnownEventTypes
       THEN IF FirstRaise(FieldsOf(event_type), payload) # ""
            THEN Raised(FirstRaise(FieldsOf(event_type), payload))
            ELSE
            Returned(HookEvent(VariantOf(event_type), schema_version.val, event_id,
                               timestamp, JStr(EventTypeLiteral(event_type)), raw,
                               extras_for(raw, KnownKeys(event_type)),
                               BoundFields(event_type, payload)))
       ELSE Returned(HookEvent("UnknownHookEvent", schema_version.val, event_id,
                               timestamp, JStr(event_type), raw,
                               extras_for(raw, base_known \cup {"type"}), EmptyMap))

(***************************************************************************)
(* The binder called on its own: a caller binds the payloads of a list,    *)
(* one after the other; fn is [op, todo, results], results[i] being how    *)
(* the call on todo[i] ended.                                              *)
(***************************************************************************)
\* what a payload may hold under "type"
TypeValues ==
    {Absent, JNull, JStr(""), JStr("mystery"), JInt(5)}
    \cup {JStr(t) : t \in KnownEventTypes}

\* what a payload may hold under "schema-version"
SchemaVersions ==
    {Absent, JInt(1), JStr(" 3 "), JStr("abc"), JList(<<JInt(1)>>), JFloat(15)}

\* the other items a payload may hold
FieldPool ==
    {<<"tool-name", JStr("x")>>, <<"tool-name", JInt(5)>>,
     <<"tool_name", JStr("x")>>,
     <<"attempt", JInt(2)>>, <<"attempt", JStr(" 3 ")>>,
     <<"attempt", JNonFinite("inf")>>,
     <<"success", JBool(TRUE)>>, <<"success", JStr(" Yes ")>>,
     <<"command", JList(<<JStr("ls"), JInt(1), JNull>>)>>,
     <<"cwd", JStr("/a")>>, <<"cwd", JNull>>,
     <<"approval-policy", JDict(("mode" :> JStr("ask")))>>,
     <<"token-usage", JDict(("total" :> JInt(9)))>>,
     <<"future-field", JInt(1)>>,
     <<"event-id", JStr("e1")>>, <<"event-id", JInt(7)>>, <<"event-id", JInt(0)>>,
     <<"timestamp", JBool(FALSE)>>}

MaxFields == 2

\* the maps of at most n items of the pool
RECURSIVE FieldMaps(_)
FieldMaps(n) ==
    IF n = 0 THEN {EmptyMap}
    ELSE LET fewer == FieldMaps(n - 1) IN
         fewer \cup UNION {{m @@ (kv[1] :> kv[2]) :
                               kv \in {x \in FieldPool : x[1] \notin DOMAIN m}} :
                            m \in fewer}

Payload(type, schema_version, fields) ==
    JDict(Opt("type", type) @@ Opt("schema-version", schema_version) @@ fields)

Payloads ==
    {Payload(t, sv, m) : t \in TypeValues, sv \in SchemaVersions, m \in FieldMaps(MaxFields)}

\* the payloads bound one after the other: an event in hyphen spelling, the
\* same in underscore spelling, events of other types, one the binder
\* cannot bind, and the empty payload
SeriesPayloads ==
    {Payload(JStr("tool-call-finished"), JInt(1),
             ("tool-name" :> JStr("x")) @@ ("future-field" :> JInt(1))),
     Payload(JStr("tool-call-finished"), JInt(1),
             ("tool_name" :> JStr("x")) @@ ("future-field" :> JInt(1))),
     Payload(JStr("session-start"), Absent,
             ("cwd" :> JStr("/a")) @@ ("approval-policy" :> JStr("never"))),
     Payload(JStr("mystery"), Absent, ("tool-name" :> JStr("x"))),
     Payload(Absent, JStr("abc"), EmptyMap),
     Payload(Absent, Absent, EmptyMap)}

MaxBinds == 3

BindCall(todo) == [op |-> "bind", todo |-> todo, results |-> <<>>]

InitBinder ==
    /\ fn \in {BindCall(<<p>>) : p \in Payloads}
           \cup {BindCall(todo) : todo \in SeqsUpTo(SeriesPayloads, MaxBinds)}
    /\ files = EmptyMap
    /\ stdin = <<>>
    /\ pc = "lib"
    /\ on_event = "unset"
    /\ lineNo = 0
    /\ calls = <<>>
    /\ stderr = <<>>
    /\ stdout = <<>>
    /\ status = <<>>
    /\ reads = <<>>

\* parse_hook_event(payload) on the next payload of the list
Bind ==
    /\ fn.op = "bind"
    /\ Len(fn.results) < Len(fn.todo)
    /\ fn' = [fn EXCEPT !.results =
                 Append(@, parse_hook_event(fn.todo[Len(fn.results) + 1]))]
    /\ UNCHANGED <<hostVars, reads>>

NextBinder == Bind

SpecBinder == InitBinder /\ [][NextBinder]_vars

(***************************************************************************)
(* The coercion helpers called on their own: one call of _as_str, _as_int, *)
(* _as_bool or _as_str_list on one value.                                  *)
(***************************************************************************)
\* the strings a field may hold
CoercionStrings ==
    {"", "abc", "3", " 3 ", "-4", "+7", "12", "1.5", "1 2", "-", "0", "1",
     "true", "True", "TRUE", "yes", " Yes ", "y", "on", " on",
     "false", "no", "No", "n", "off", "OFF"}

\* what a list may hold
ListItems == {JNull, JStr("ls"), JInt(1), JBool(TRUE), JFloat(-15)}

\* the values a field may hold
CoercionInputs ==
    {JNull, JBool(TRUE), JBool(FALSE), JInt(0), JInt(2), JInt(-3),
     JFloat(0), JFloat(15), JFloat(-15), JFloat(-5), JFloat(29),
     JNonFinite("inf"), JNonFinite("-inf"), JNonFinite("nan"),
     JDict(EmptyMap), JDict(("total" :> JInt(9)))}
    \cup {JStr(s) : s \in CoercionStrings}
    \cup {JList(l) : l \in SeqsUpTo(ListItems, MaxLen)}

CoercionOps == {"_as_str", "_as_int", "_as_bool", "_as_str_list"}

InitCoerce ==
    /\ fn \in {HelperCall(op, v) : op \in CoercionOps, v \in CoercionInputs}
    /\ files = EmptyMap
    /\ stdin = <<>>
    /\ pc = "lib"
    /\ on_event = "unset"
    /\ lineNo = 0
    /\ calls = <<>>
    /\ stderr = <<>>
    /\ stdout = <<>>
    /\ status = <<>>
    /\ reads = <<>>

\* how the call of a coercion that evaluated to v ended
Ended(v) == IF v.t = "raise" THEN Raised(v.exc) ELSE Returned(v)

CallAsStr ==
    /\ fn.op = "_as_str"
    /\ ~fn.done
    /\ fn' = [fn EXCEPT !.done = TRUE, !.result = Ended(_as_str(fn.input))]
    /\ UNCHANGED <<hostVars, reads>>

CallAsInt ==
    /\ fn.op = "_as_int"
    /\ ~fn.done
    /\ fn' = [fn EXCEPT !.done = TRUE, !.result = Ended(_as_int(fn.input))]
    /\ UNCHANGED <<hostVars, reads>>

CallAsBool ==
    /\ fn.op = "_as_bool"
    /\ ~fn.done
    /\ fn' = [fn EXCEPT !.done = TRUE, !.result = Ended(_as_bool(fn.input))]
    /\ UNCHANGED <<hostVars, reads>>

CallAsStrList ==
    /\ fn.op = "_as_str_list"
    /\ ~fn.done
    /\ fn' = [fn EXCEPT !.done = TRUE, !.result = Ended(_as_str_list(fn.input))]
    /\ UNCHANGED <<hostVars, reads>>

NextCoerce == CallAsStr \/ CallAsInt \/ CallAsBool \/ CallAsStrList

SpecCoerce == InitCoerce /\ [][NextCoerce]_vars

(***************************************************************************)
(* xcodex_hooks_models.py of the xcodex kit: the binder of underscore-keyed *)
(* payloads.  Its _as_str and _as_int are the same text as the ones above.  *)
(***************************************************************************)
\* the attributes of HookPayload declared without a default
HookPayloadRequired ==
    {"cwd", "event_id", "hook_event_name", "permission_mode",
     "schema_version", "session_id", "timestamp", "transcript_path",
     "xcodex_event_type"}

\* the attributes of HookPayload declared Optional[Any] = None
HookPayloadOptional ==
    {"approval_policy", "attempt", "call_id", "command", "duration_ms",
     "grant_root", "has_output_schema", "input_item_count",
     "input_messages", "kind", "last_assistant_message", "message", "model",
     "model_request_id", "needs_follow_up", "notification_type",
     "output_bytes", "output_preview", "parallel_tool_calls", "paths",
     "prompt", "proposed_execpolicy_amendment", "provider", "reason",
     "request_id", "response_id", "sandbox_policy", "server_name",
     "session_source", "status", "subagent", "success", "title",
     "token_usage", "tool_count", "tool_input", "tool_name",
     "tool_response", "tool_use_id", "trigger", "turn_id"}

\* known, the keys parse_hook_payload keeps out of extras
payload_known ==
    {"approval_policy", "attempt", "call_id", "command", "cwd",
     "duration_ms", "event_id", "grant_root", "has_output_schema",
     "hook_event_name", "input_item_count", "input_messages", "kind",
     "last_assistant_message", "message", "model", "model_request_id",
     "needs_follow_up", "notification_type", "output_bytes",
     "output_preview", "parallel_tool_calls", "paths", "permission_mode",
     "prompt", "proposed_execpolicy_amendment", "provider", "reason",
     "request_id", "response_id", "sandbox_policy", "schema_version",
     "server_name", "session_id", "session_source", "status", "subagent",
     "success", "timestamp", "title", "token_usage", "tool_count",
     "tool_input", "tool_name", "tool_response", "tool_use_id",
     "transcript_path", "trigger", "turn_id", "xcodex_event_type"}

\* the function object of  lambda x: x(raw.get(key))
Lambda(key) == [t |-> "function", key |-> key]

\* the keyword arguments of the HookPayload(...) call, as written
HookPayloadArguments ==
    <<Field("approval_policy", "approval_policy", "lambda"),
      Field("attempt", "attempt", "lambda"),
      Field("call_id", "call_id", "lambda"),
      Field("command", "command", "lambda"),
      Field("cwd", "cwd", "_as_str"),
      Field("duration_ms", "duration_ms", "lambda"),
      Field("event_id", "event_id", "_as_str"),
      Field("grant_root", "grant_root", "lambda"),
      Field("has_output_schema", "has_output_schema", "lambda"),
      Field("hook_event_name", "hook_event_name", "_as_str"),
      Field("input_item_count", "input_item_count", "lambda"),
      Field("input_messages", "input_messages", "lambda"),
      Field("kind", "kind", "lambda"),
      Field("last_assistant_message", "last_assistant_message", "lambda"),
      Field("message", "message", "lambda"),
      Field("model", "model", "lambda"),
      Field("model_request_id", "model_request_id", "lambda"),
      Field("needs_follow_up", "needs_follow_up", "lambda"),
      Field("notification_type", "notification_type", "lambda"),
      Field("output_bytes", "output_bytes", "lambda"),
      Field("output_preview", "output_preview", "lambda"),
      Field("parallel_tool_calls", "parallel_tool_calls", "lambda"),
      Field("paths", "paths", "lambda"),
      Field("permission_mode", "permission_mode", "_as_str"),
      Field("prompt", "prompt", "lambda"),
      Field("proposed_execpolicy_amendment", "proposed_execpolicy_amendment", "lambda"),
      Field("provider", "provider", "lambda"),
      Field("reason", "reason", "lambda"),
      Field("request_id", "request_id", "lambda"),
      Field("response_id", "response_id", "lambda"),
      Field("sandbox_policy", "sandbox_policy", "lambda"),
      Field("schema_version", "schema_version", "_as_int"),
      Field("server_name", "server_name", "lambda"),
      Field("session_id", "session_id", "_as_str"),
      Field("session_source", "session_source", "lambda"),
      Field("status", "status", "lambda"),
      Field("subagent", "subagent", "lambda"),
      Field("success", "success", "lambda"),
      Field("timestamp", "timestamp", "_as_str"),
      Field("title", "title", "lambda"),
      Field("token_usage", "token_usage", "lambda"),
      Field("tool_count", "tool_count", "lambda"),
      Field("tool_input", "tool_input", "lambda"),
      Field("tool_name", "tool_name", "lambda"),
      Field("tool_response", "tool_response", "lambda"),
      Field("tool_use_id", "tool_use_id", "lambda"),
      Field("transcript_path", "transcript_path", "_as_str"),
      Field("trigger", "trigger", "lambda"),
      Field("turn_id", "turn_id", "lambda"),
      Field("xcodex_event_type", "xcodex_event_type", "_as_str")>>

\* the value of one keyword argument
Argument(f, raw) ==
    IF f.conv = "lambda" THEN Lambda(f.key)
    ELSE Coerce(f.conv, DictGet(raw, f.key))

HookPayload(fields, raw, extras) ==
    [variant |-> "HookPayload", fields |-> fields, raw |-> raw, extras |-> extras]

parse_hook_payload(payload) ==
    LET raw == DictCopy(payload)
        extras == extras_for(raw, payload_known)
        fs == HookPayloadArguments
    IN IF \E i \in DOMAIN fs : Argument(fs[i], raw).t = "raise"
       THEN Raised(Argument(fs[CHOOSE i \in DOMAIN fs :
                                  /\ Argument(fs[i], raw).t = "raise"
                                  /\ \A j \in 1..(i - 1) :
                                        Argument(fs[j], raw).t # "raise"], raw).exc)
       ELSE Returned(HookPayload(
                [a \in {fs[i].attr : i \in DOMAIN fs} |->
                    Argument(fs[CHOOSE i \in DOMAIN fs : fs[i].attr = a], raw)],
                raw, extras))


(***************************************************************************)
(* parse_hook_payload called on its own, on one underscore-keyed payload.  *)
(***************************************************************************)
\* the items such a payload may hold
HookPayloadPool ==
    {<<"tool_name", JStr("x")>>, <<"tool_name", JNull>>,
     <<"attempt", JInt(2)>>,
     <<"status", JStr("completed")>>,
     <<"success", JBool(TRUE)>>,
     <<"duration_ms", JInt(12)>>,
     <<"cwd", JStr("/a")>>, <<"cwd", JInt(5)>>,
     <<"schema_version", JInt(1)>>, <<"schema_version", JStr("abc")>>,
     <<"schema_version", JNonFinite("inf")>>,
     <<"event_id", JStr("e1")>>,
     <<"tool-name", JStr("x")>>,
     <<"future_field", JInt(1)>>}

\* the maps of at most n items of the pool
RECURSIVE HookPayloadMaps(_)
HookPayloadMaps(n) ==
    IF n = 0 THEN {EmptyMap}
    ELSE LET fewer == HookPayloadMaps(n - 1) IN
         fewer \cup UNION {{m @@ (kv[1] :> kv[2]) :
                               kv \in {x \in HookPayloadPool : x[1] \notin DOMAIN m}} :
                            m \in fewer}

HookPayloads == {JDict(m) : m \in HookPayloadMaps(MaxFields)}

InitHookPayload ==
    /\ fn \in {HelperCall("parse_hook_payload", p) : p \in HookPayloads}
    /\ files = EmptyMap
    /\ stdin = <<>>
    /\ pc = "lib"
    /\ on_event = "unset"
    /\ lineNo = 0
    /\ calls = <<>>
    /\ stderr = <<>>
    /\ stdout = <<>>
    /\ status = <<>>
    /\ reads = <<>>

CallParseHookPayload ==
    /\ fn.op = "parse_hook_payload"
    /\ ~fn.done
    /\ fn' = [fn EXCEPT !.done = TRUE, !.result = parse_hook_payload(fn.input)]
    /\ UNCHANGED <<hostVars, reads>>

NextHookPayload == CallParseHookPayload

SpecHookPayload == InitHookPayload /\ [][NextHookPayload]_vars

(***************************************************************************)
(* xcodex_hooks_runtime.py: the type guards on a payload mapping, and      *)
(* xcodex_hooks_types.py: the payload types they narrow to.                *)
(***************************************************************************)
\* (a test that is satisfied by any one of the keys)
HasSomeKey(payload, keys) == \E i \in 1..Len(keys) : HasKey(payload, keys[i])

\* all(k in payload for k in keys)
_has_keys(payload, keys) == \A i \in 1..Len(keys) : HasKey(payload, keys[i])

is_agent_turn_complete(payload) ==
    /\ DictGet(payload, "type") = JStr("agent-turn-complete")
    /\ _has_keys(payload, <<"thread-id", "turn-id", "cwd", "input-messages">>)

is_approval_requested(payload) ==
    /\ DictGet(payload, "type") = JStr("approval-requested")
    /\ _has_keys(payload, <<"thread-id", "kind">>)

is_session_start(payload) ==
    /\ DictGet(payload, "type") = JStr("session-start")
    /\ _has_keys(payload, <<"thread-id", "cwd", "session-source">>)

is_session_end(payload) ==
    /\ DictGet(payload, "type") = JStr("session-end")
    /\ _has_keys(payload, <<"thread-id", "cwd", "session-source">>)

is_model_request_started(payload) ==
    /\ DictGet(payload, "type") = JStr("model-request-started")
    /\ _has_keys(payload, <<"thread-id", "turn-id", "cwd", "model-request-id",
                           "attempt", "model",
                           "provider",
                           "prompt-input-item-count",
                           "tool-count",
                           "parallel-tool-calls",
                           "has-output-schema">>)

is_model_response_completed(payload) ==
    /\ DictGet(payload, "type") = JStr("model-response-completed")
    /\ _has_keys(payload, <<"thread-id", "turn-id", "cwd", "model-request-id",
                           "attempt",
                           "response-id",
                           "needs-follow-up">>)

is_tool_call_started(payload) ==
    /\ DictGet(payload, "type") = JStr("tool-call-started")
    /\ _has_keys(payload, <<"thread-id", "turn-id", "cwd", "model-request-id",
                           "attempt", "tool-name",
                           "call-id">>)

is_tool_call_finished(payload) ==
    /\ DictGet(payload, "type") = JStr("tool-call-finished")
    /\ _has_keys(payload, <<"thread-id", "turn-id", "cwd", "model-request-id",
                           "attempt", "tool-name",
                           "call-id", "status",
                           "duration-ms",
                           "success",
                           "output-bytes">>)

\* the guards, by name
GuardNames ==
    {"is_agent_turn_complete", "is_approval_requested",
     "is_session_start", "is_session_end",
     "is_model_request_started",
     "is_model_response_completed",
     "is_tool_call_started",
     "is_tool_call_finished"}

Holds(guard, payload) ==
    CASE guard = "is_agent_turn_complete" -> is_agent_turn_complete(payload)
      [] guard = "is_approval_requested" -> is_approval_requested(payload)
      [] guard = "is_session_start" -> is_session_start(payload)
      [] guard = "is_session_end" -> is_session_end(payload)
      [] guard = "is_model_request_started" -> is_model_request_started(payload)
      [] guard = "is_model_response_completed" -> is_model_response_completed(payload)
      [] guard = "is_tool_call_started" -> is_tool_call_started(payload)
      [] guard = "is_tool_call_finished" -> is_tool_call_finished(payload)

\* TypeGuard[...]: the payload type a guard narrows to
GuardedType(guard) ==
    CASE guard = "is_agent_turn_complete" -> "AgentTurnCompletePayload"
      [] guard = "is_approval_requested" -> "ApprovalRequestedPayload"
      [] guard = "is_session_start" -> "SessionStartPayload"
      [] guard = "is_session_end" -> "SessionEndPayload"
      [] guard = "is_model_request_started" -> "ModelRequestStartedPayload"
      [] guard = "is_model_response_completed" -> "ModelResponseCompletedPayload"
      [] guard = "is_tool_call_started" -> "ToolCallStartedPayload"
      [] guard = "is_tool_call_finished" -> "ToolCallFinishedPayload"

\* the Literal under "type" of each payload type
TypeLiteral(typed_dict) ==
    CASE typed_dict = "AgentTurnCompletePayload" -> "agent-turn-complete"
      [] typed_dict = "ApprovalRequestedPayload" -> "approval-requested"
      [] typed_dict = "ModelRequestStartedPayload" -> "model-request-started"
      [] typed_dict = "ModelResponseCompletedPayload" -> "model-response-completed"
      [] typed_dict = "SessionEndPayload" -> "session-end"
      [] typed_dict = "SessionStartPayload" -> "session-start"
      [] typed_dict = "ToolCallFinishedPayload" -> "tool-call-finished"
      [] typed_dict = "ToolCallStartedPayload" -> "tool-call-started"

\* the keys each payload type declares Required, "type" aside
RequiredKeys(typed_dict) ==
    CASE typed_dict = "AgentTurnCompletePayload" ->
            {"cwd", "input-messages", "thread-id", "turn-id"}
      [] typed_dict = "ApprovalRequestedPayload" ->
            {"kind", "thread-id"}
      [] typed_dict = "ModelRequestStartedPayload" ->
            {"attempt", "cwd", "has-output-schema", "model",
             "model-request-id",
             "parallel-tool-calls",
             "prompt-input-item-count",
             "provider", "thread-id",
             "tool-count", "turn-id"}
      [] typed_dict = "ModelResponseCompletedPayload" ->
            {"attempt", "cwd", "model-request-id",
             "needs-follow-up", "response-id",
             "thread-id", "turn-id"}
      [] typed_dict = "SessionEndPayload" ->
            {"cwd", "session-source", "thread-id"}
      [] typed_dict = "SessionStartPayload" ->
            {"cwd", "session-source", "thread-id"}
      [] typed_dict = "ToolCallFinishedPayload" ->
            {"attempt", "call-id", "cwd", "duration-ms",
             "model-request-id", "output-bytes",
             "status", "success", "thread-id",
             "tool-name", "turn-id"}
      [] typed_dict = "ToolCallStartedPayload" ->
            {"attempt", "call-id", "cwd", "model-request-id",
             "thread-id", "tool-name", "turn-id"}

(***************************************************************************)
(* A hook that tests a payload with every guard and then binds it.         *)
(***************************************************************************)
\* the keys a payload may hold next to "type": what a payload type
\* requires, the same less one key, the same and a key of a later version
GuardKeySets ==
    {{}}
    \cup UNION {{RequiredKeys(GuardedType(g)),
                 RequiredKeys(GuardedType(g)) \cup {"future-field"}}
                \cup {RequiredKeys(GuardedType(g)) \ {k} :
                         k \in RequiredKeys(GuardedType(g))} : g \in GuardNames}

\* the value the payload holds under each of its keys
GuardFills == {JStr("v"), JInt(0), JNull, JNonFinite("inf")}

GuardPayloads ==
    {JDict(Opt("type", t) @@ [k \in ks |-> v]) :
        t \in TypeValues, ks \in GuardKeySets, v \in GuardFills}

InitGuards ==
    /\ fn \in {HelperCall("guards", p) : p \in GuardPayloads}
    /\ files = EmptyMap
    /\ stdin = <<>>
    /\ pc = "lib"
    /\ on_event = "unset"
    /\ lineNo = 0
    /\ calls = <<>>
    /\ stderr = <<>>
    /\ stdout = <<>>
    /\ status = <<>>
    /\ reads = <<>>

\* is_*(payload) for each guard, then parse_hook_event(payload)
CallGuards ==
    /\ fn.op = "guards"
    /\ ~fn.done
    /\ fn' = [fn EXCEPT !.done = TRUE,
                        !.result = [holds |-> {g \in GuardNames : Holds(g, fn.input)},
                                    event |-> parse_hook_event(fn.input)]]
    /\ UNCHANGED <<hostVars, reads>>

NextGuards == CallGuards

SpecGuards == InitGuards /\ [][NextGuards]_vars

(***************************************************************************)
(* as_hook_payload of the two runtimes: xcodex_hooks_runtime.py of the     *)
(* hyphen-keyed kit and of the underscore-keyed kit (whose _has_keys is    *)
(* the same text).                                                         *)
(***************************************************************************)
\* (a filter that wanted a value that is not None under every required key)
AsHookPayloadChecksValues(payload) ==
    IF \E k \in {"schema-version", "event-id", "timestamp", "type"} :
          DictGet(payload, k) = JNull
    THEN JNull
    ELSE payload

as_hook_payload(payload) ==
    IF ~_has_keys(payload, <<"schema-version", "event-id", "timestamp", "type">>)
    THEN JNull
    ELSE payload

\* as_hook_payload of the underscore-keyed kit
xcodex_as_hook_payload(payload) ==
    IF ~_has_keys(payload, <<"schema_version", "event_id", "timestamp",
                             "session_id", "cwd", "permission_mode",
                             "transcript_path", "hook_event_name",
                             "xcodex_event_type">>)
    THEN JNull
    ELSE payload

\* the keys a payload may hold: the ones either filter asks for, and one of
\* a later version
FilterKeys ==
    {"schema-version", "event-id", "timestamp", "type",
     "schema_version", "event_id", "session_id", "cwd", "permission_mode",
     "transcript_path", "hook_event_name", "xcodex_event_type", "future-field"}

\* the key sets of the payloads: every set of hyphen keys, every set of
\* underscore keys, each with and without the later key
FilterKeySets ==
    {ks \cup x : ks \in SUBSET {"schema-version", "event-id", "timestamp", "type"},
                 x \in {{}, {"future-field"}, {"schema_version"}}}
    \cup {ks \cup x : ks \in SUBSET (FilterKeys \ {"schema-version", "event-id",
                                                   "type", "future-field"}),
                      x \in {{}, {"future-field"}}}

\* the value the payload holds under each of its keys
FilterFills == {JStr("v"), JNull, JInt(0)}

FilterPayloads == {JDict([k \in ks |-> v]) : ks \in FilterKeySets, v \in FilterFills}

InitFilter ==
    /\ fn \in {HelperCall(op, p) :
                  op \in {"as_hook_payload", "xcodex_as_hook_payload"},
                  p \in FilterPayloads}
    /\ files = EmptyMap
    /\ stdin = <<>>
    /\ pc = "lib"
    /\ on_event = "unset"
    /\ lineNo = 0
    /\ calls = <<>>
    /\ stderr = <<>>
    /\ stdout = <<>>
    /\ status = <<>>
    /\ reads = <<>>

CallAsHookPayload ==
    /\ fn.op = "as_hook_payload"
    /\ ~fn.done
    /\ fn' = [fn EXCEPT !.done = TRUE, !.result = Returned(as_hook_payload(fn.input))]
    /\ UNCHANGED <<hostVars, reads>>

CallXcodexAsHookPayload ==
    /\ fn.op = "xcodex_as_hook_payload"
    /\ ~fn.done
    /\ fn' = [fn EXCEPT !.done = TRUE,
                        !.result = Returned(xcodex_as_hook_payload(fn.input))]
    /\ UNCHANGED <<hostVars, reads>>

NextFilter == CallAsHookPayload \/ CallXcodexAsHookPayload

SpecFilter == InitFilter /\ [][NextFilter]_vars

(***************************************************************************)
(* The host against an emitter that rewrites the payload file between      *)
(* messages: every hook-event line names the same path or carries its      *)
(* event inline (an object, a number, null, or no event at all).           *)
(***************************************************************************)
PayloadLines ==
    {"event_path", "event_seq1", "event_absent", "event_null", "event_number"}

\* what the emitter may leave in the payload file
PayloadTexts == {SessionStartText, ToolCallStartedText, ListText}

\* the emitter replaces the payload file while the host waits for a line
WriteFile ==
    /\ pc = "loop"
    /\ \E text \in PayloadTexts :
         /\ files[XPath] # text
         /\ files' = [files EXCEPT ![XPath] = text]
    /\ UNCHANGED <<stdin, pc, on_event, lineNo, calls, stderr, stdout, status, reads, fn>>

InitPayloads ==
    /\ files \in {(XPath :> text) : text \in PayloadTexts}
    /\ stdin \in SeqsUpTo(PayloadLines, MaxLen)
    /\ pc = "start"
    /\ on_event = "unset"
    /\ lineNo = 0
    /\ calls = <<>>
    /\ stderr = <<>>
    /\ stdout = <<>>
    /\ status = <<>>
    /\ reads = <<>>
    /\ fn = NoCall

NextPayloads == Next \/ WriteFile

SpecPayloads == InitPayloads /\ [][NextPayloads]_vars

(***************************************************************************)
(* The sample stream of the dispatch-loop test: an empty line, "not json", *)
(* one hook-event message (seq 1) and one message of type "other" (seq 2). *)
(***************************************************************************)
SampleStream == <<"blank", "not_json", "event_seq1", "other_seq2">>

SampleLines == {SampleStream[i] : i \in 1..Len(SampleStream)}

\* the sample's lines in every order and number, up to the sample's length
InitSample ==
    /\ files = EmptyMap
    /\ stdin \in SeqsUpTo(SampleLines, Len(SampleStream))
    /\ pc = "start"
    /\ on_event = "unset"
    /\ lineNo = 0
    /\ calls = <<>>
    /\ stderr = <<>>
    /\ stdout = <<>>
    /\ status = <<>>
    /\ reads = <<>>
    /\ fn = NoCall

SpecSample == InitSample /\ [][Next]_vars

(***************************************************************************)
(* What the claims are stated over: the lines by kind, the payloads the    *)
(* emitter meant, and the history of the run.                              *)
(***************************************************************************)
ToolCallFinishedEvent ==
    JDict(("type" :> JStr("tool-call-finished")) @@ ("tool-name" :> JStr("x"))
          @@ ("status" :> JStr("completed")) @@ ("duration-ms" :> JInt(12))
          @@ ("success" :> JBool(TRUE)))

ToolCallStartedEvent ==
    JDict(("type" :> JStr("tool-call-started")) @@ ("tool-name" :> JStr("x")))

SessionStartEvent ==
    JDict(("type" :> JStr("session-start")) @@ ("cwd" :> JStr("/a"))
          @@ ("session-source" :> JStr("cli")) @@ ("thread-id" :> JStr("t1")))

BlankLines == {"blank", "spaces"}

InlineEventLines == {"event_seq1", "event_seq4"}

HookEventLines == InlineEventLines \cup {"event_path"}

\* the payload file is there and complete
PayloadFileOk == XPath \in DOMAIN files /\ files[XPath] = SessionStartText

\* a hook-event line whose payload can be resolved
ValidEventLine(name) ==
    name \in InlineEventLines \/ (name = "event_path" /\ PayloadFileOk)

\* a hook-event line whose indirection path names a missing or invalid file
UnresolvableLine(name) == name = "event_path" /\ ~PayloadFileOk

\* the payload the emitter sent on a valid hook-event line
PayloadOf(name) ==
    CASE name = "event_seq1" -> ToolCallFinishedEvent
      [] name = "event_seq4" -> ToolCallStartedEvent
      [] name = "event_path" -> SessionStartEvent

Positions == 1..Len(stdin)

\* the loop was entered: start-up passed
LoopEntered == on_event = "callable"

Finished == pc = "exit" /\ LoopEntered

\* the positions of the stream's valid hook-event lines among the first n, in order
RECURSIVE EventPositions(_)
EventPositions(n) ==
    IF n = 0 THEN <<>>
    ELSE IF ValidEventLine(stdin[n]) THEN Append(EventPositions(n - 1), n)
    ELSE EventPositions(n - 1)

CallLines == [i \in 1..Len(calls) |-> calls[i].line]

CallArgs == [i \in 1..Len(calls) |-> calls[i].arg]

RaisedCalls == {i \in 1..Len(calls) : calls[i].outcome = "raised"}

NotesOfKind(kind) == {j \in 1..Len(stderr) : stderr[j].kind = kind}

ParseNotices == Cardinality(NotesOfKind("hook host: failed to parse JSON line"))

HandlerNotices == Cardinality(NotesOfKind("hook host: user hook raised"))

\* the notices of the host: one per reported condition
DiagnosticNotices == ParseNotices + HandlerNotices

(***************************************************************************)
(* C1 (as claimed): whatever the lines hold, the loop ends only at         *)
(* end-of-stream: once entered, the host ends with status 0 and with every *)
(* line of the stream read.                                                *)
(* Stated for the streams whose indirection paths all resolve (C3 is about *)
(* the others).  The code ends early with status 1 on a line holding a     *)
(* JSON value that is no object (msg.get raises AttributeError), e.g. the  *)
(* line [1].                                                               *)
(***************************************************************************)
C1_LoopEndsOnlyAtEndOfStream ==
    (Finished /\ \A k \in Positions : ~UnresolvableLine(stdin[k])) =>
        (status = <<0>> /\ lineNo = Len(stdin))

(***************************************************************************)
(* C2: handler failure isolation.  Every invocation that raised is         *)
(* reported on stderr and never ends the process; and on a stream of N     *)
(* valid hook-event lines the handler is invoked exactly N times, once per *)
(* line in order, and the host ends at end-of-stream with status 0,        *)
(* whichever invocations raised (all of them included).                    *)
(***************************************************************************)
C2_HandlerFailureIsolated ==
    /\ LoopEntered => HandlerNotices = Cardinality(RaisedCalls)
    /\ (Finished /\ \A k \in Positions : ValidEventLine(stdin[k])) =>
          /\ status = <<0>>
          /\ lineNo = Len(stdin)
          /\ Len(calls) = Len(stdin)
          /\ \A i \in 1..Len(calls) : calls[i].line = i

\* three valid events, the handler raised on each, the host ended with 0
C2_Witness ==
    /\ Finished
    /\ Len(stdin) = 3
    /\ \A k \in Positions : ValidEventLine(stdin[k])
    /\ Len(calls) = 3
    /\ RaisedCalls = 1..3
    /\ status = <<0>>

(***************************************************************************)
(* C3 (as claimed): a payload that cannot be resolved (file missing or not *)
(* valid JSON) is skipped: on a stream of JSON-object lines with such a    *)
(* message, the handler is invoked for exactly the valid hook-event lines, *)
(* later ones included, and the host ends at end-of-stream with status 0.  *)
(* The code resolves the payload outside any try: the exception leaves     *)
(* main and the process ends with status 1.                                *)
(***************************************************************************)
C3_ResolutionFailureSkipped ==
    (/\ Finished
     /\ \E k \in Positions : UnresolvableLine(stdin[k])
     /\ \A k \in Positions : stdin[k] # "json_list") =>
        /\ status = <<0>>
        /\ lineNo = Len(stdin)
        /\ CallLines = EventPositions(Len(stdin))

(***************************************************************************)
(* C4 (as claimed): on a stream whose events are inline, the handler       *)
(* invocations are, in stream order, exactly the hook-event lines, each    *)
(* with its message's event as argument.                                   *)
(* Fails through C1's bug: a line holding a JSON value that is no object   *)
(* ends the host, and the hook-event lines after it are never dispatched.  *)
(***************************************************************************)
C4_ExactlyOnceInOrder ==
    (Finished /\ \A k \in Positions : stdin[k] # "event_path") =>
        /\ CallLines = EventPositions(Len(stdin))
        /\ \A i \in 1..Len(calls) : calls[i].arg = PayloadOf(stdin[calls[i].line])

CallsForLine(k) == {i \in 1..Len(calls) : calls[i].line = k}

NotesForLine(k) ==
    LET name == stdin[k] IN
    IF name \in BlankLines \/ name = "other_seq2" THEN <<>>
    ELSE IF name = "not_json"
    THEN <<Note("hook host: failed to parse JSON line", <<NL>>),
           Note("raw_line", <<Word("not"), SP, Word("json"), NL>>)>>
    ELSE IF name = "json_list" THEN <<Note("Traceback", <<S("AttributeError")>>)>>
    ELSE IF UnresolvableLine(name)
    THEN <<Note("Traceback",
                <<S(IF XPath \in DOMAIN files THEN "JSONDecodeError"
                    ELSE "FileNotFoundError")>>)>>
    ELSE IF \E i \in CallsForLine(k) : calls[i].outcome = "raised"
    THEN <<Note("hook host: user hook raised", <<NL>>), Note("traceback", <<>>)>>
    ELSE <<>>

RECURSIVE NotesUpTo(_)
NotesUpTo(n) == IF n = 0 THEN <<>> ELSE NotesUpTo(n - 1) \o NotesForLine(n)

(***************************************************************************)
(* C6: diagnostics are produced only for failures and only on stderr.      *)
(* Nothing is ever written to stdout, and stderr holds, in order, exactly: *)
(* two lines per line that fails to parse (the message and the echoed      *)
(* line), two entries per handler invocation that raised (the message and  *)
(* the traceback), and the interpreter's traceback of an exception that    *)
(* ended the host.  A blank or whitespace-only line and a message of       *)
(* another kind add nothing and cause no invocation.                       *)
(***************************************************************************)
C6_DiagnosticsOnlyForFailures ==
    /\ stdout = <<>>
    /\ LoopEntered =>
          /\ stderr = NotesUpTo(lineNo)
          /\ \A k \in 1..lineNo :
                (stdin[k] \in BlankLines \cup {"other_seq2", "not_json"}) =>
                    CallsForLine(k) = {}

\* a message of another kind, a line that is no JSON and an invocation that
\* raised: two notices, none for the skipped message
C6_Witness ==
    /\ Finished
    /\ stdin = <<"other_seq2", "not_json", "event_seq1">>
    /\ RaisedCalls = {1}
    /\ Len(stderr) = 4
    /\ stdout = <<>>

\* a line on which an exception leaves main
EndsHost(name) == name = "json_list" \/ UnresolvableLine(name)

\* the number of lines the host takes from the stream
LinesTaken ==
    IF \E k \in Positions : EndsHost(stdin[k])
    THEN CHOOSE k \in Positions :
            EndsHost(stdin[k]) /\ \A j \in 1..(k - 1) : ~EndsHost(stdin[j])
    ELSE Len(stdin)

(***************************************************************************)
(* C7: a handler failure does not affect later events.  The payloads       *)
(* passed to the handler and the exit status are a function of the stream  *)
(* and the files alone: the valid hook-event lines before the first line   *)
(* that ends the host, each with its payload, and status 0 unless there is *)
(* such a line; the same whichever invocations raised.                     *)
(***************************************************************************)
C7_FailureDoesNotAffectLaterEvents ==
    Finished =>
        /\ lineNo = LinesTaken
        /\ CallLines = EventPositions(LinesTaken)
        /\ \A i \in 1..Len(calls) : calls[i].arg = PayloadOf(stdin[calls[i].line])
        /\ status = IF \E k \in Positions : EndsHost(stdin[k]) THEN <<1>> ELSE <<0>>

\* the first invocation raised, and a later event was dispatched all the same
C7_Witness ==
    /\ Finished
    /\ Len(calls) = 3
    /\ calls[1].outcome = "raised"
    /\ calls[2].outcome = "returned"
    /\ calls[3].arg = SessionStartEvent
    /\ status = <<0>>

(***************************************************************************)
(* C8: no overlapping handler invocations.  At most one invocation is in   *)
(* progress; it is the one for the line read last; and a line is read only *)
(* when none is in progress, so every invocation for an earlier line has   *)
(* returned or raised.                                                     *)
(***************************************************************************)
C8_NoOverlappingInvocations ==
    /\ Cardinality(RunningCalls) <= 1
    /\ \A i \in RunningCalls : calls[i].line = lineNo
    /\ \A i \in 1..Len(calls) : calls[i].line < lineNo => calls[i].outcome # "running"
    /\ pc = "loop" => RunningCalls = {}

\* the third invocation is in progress, the two before it are over
C8_Witness ==
    /\ pc = "handler"
    /\ Len(calls) = 3
    /\ RunningCalls = {3}
    /\ lineNo = 3

(***************************************************************************)
(* The helpers' claims: the indirection paths an envelope holds, and the   *)
(* JSON the emitter wrote to the file at a path.                           *)
(***************************************************************************)
PathKeys == {"payload_path", "payload-path"}

\* the non-empty string paths the envelope holds under either spelling
PathsOf(e) ==
    {e.d[k].s : k \in {x \in PathKeys \cap DOMAIN e.d : IsStr(e.d[x]) /\ e.d[x].s # ""}}

FileIsJson(path) ==
    path \in DOMAIN files /\ files[path] \in {SessionStartText, ToolCallStartedText}

FileJson(path) ==
    IF files[path] = SessionStartText THEN SessionStartEvent ELSE ToolCallStartedEvent

(***************************************************************************)
(* C9 (as claimed): for every envelope object holding a non-empty string   *)
(* path under at least one of payload_path / payload-path (the files there *)
(* being valid JSON), _resolve_event_payload returns the JSON of the file  *)
(* at such a path and never the envelope, whatever sits under the other    *)
(* spelling.                                                               *)
(* The code takes `payload_path or payload-path`: a truthy value that is   *)
(* no string under payload_path (5, true) hides the path under             *)
(* payload-path, and the envelope itself is returned.                      *)
(***************************************************************************)
C9_IndirectionAlwaysWins ==
    (/\ fn.op = "resolve"
     /\ fn.done
     /\ IsDict(fn.input)
     /\ PathsOf(fn.input) # {}
     /\ \A p \in PathsOf(fn.input) : FileIsJson(p)) =>
        /\ fn.result.exc = ""
        /\ \E p \in PathsOf(fn.input) : fn.result.val = FileJson(p)
        /\ fn.result.val # fn.input

(***************************************************************************)
(* C10 (as claimed): read_payload follows the indirection under both key   *)
(* spellings: on {"payload_path": P} as on {"payload-path": P}, P the path *)
(* of a file of valid JSON, it returns the JSON of the file.               *)
(* The code looks up "payload-path" only: {"payload_path": P} comes back   *)
(* as it is.                                                               *)
(***************************************************************************)
C10_ReadPayloadBothSpellings ==
    \A k \in PathKeys, p \in {XPath, YPath} :
        (/\ fn.op = "read_payload"
         /\ fn.done
         /\ fn.input = ObjText(<<Member(k, <<S(p)>>)>>)
         /\ FileIsJson(p)) =>
            /\ fn.result.exc = ""
            /\ fn.result.val = FileJson(p)

(***************************************************************************)
(* C11: an envelope object with no indirection field, or with an empty one *)
(* (here: holding no non-empty string under payload_path or payload-path)  *)
(* resolves to itself: the call of _resolve_event_payload returns the      *)
(* envelope it was given, opens no file, and leaves the envelope as it was. *)
(***************************************************************************)
C11_InlineResolvesToItself ==
    [][(/\ fn.op = "resolve"
        /\ ~fn.done
        /\ fn'.done
        /\ IsDict(fn.input)
        /\ PathsOf(fn.input) = {}) =>
           /\ fn'.result.exc = ""
           /\ fn'.result.val = fn.input
           /\ fn'.result.reads = <<>>
           /\ reads' = reads
           /\ fn'.input = fn.input]_vars

C11_Witness ==
    /\ fn.op = "resolve"
    /\ fn.done
    /\ IsDict(fn.input)
    /\ HasKey(fn.input, "payload_path")
    /\ fn.input.d["payload_path"] = JStr("")
    /\ HasKey(fn.input, "type")
    /\ fn.result.val = fn.input
    /\ reads = <<>>

\* the JSON value of what the emitter left in the payload file
TextJson(text) ==
    CASE text = SessionStartText    -> SessionStartEvent
      [] text = ToolCallStartedText -> ToolCallStartedEvent
      [] text = ListText            -> JList(<<JInt(1)>>)

\* the step that takes the next line from stdin
TakesLine == pc = "loop" /\ lineNo < Len(stdin) /\ lineNo' = lineNo + 1

\* the calls made for lines that name the payload file
PathCalls == {i \in 1..Len(calls) : stdin[calls[i].line] = "event_path"}

(***************************************************************************)
(* C12: no caching across messages.  Every hook-event message that carries *)
(* the indirection path causes one read of the file at that path, made     *)
(* when the message is taken, and the handler is invoked with the JSON the *)
(* file holds at that moment: after the emitter has rewritten the file,    *)
(* the next message naming the same path delivers the new content.  A      *)
(* message without a path causes no read.                                  *)
(***************************************************************************)
C12_NoCachingAcrossMessages ==
    [][TakesLine =>
         IF stdin[lineNo + 1] = "event_path"
         THEN /\ reads' = Append(reads, [path |-> XPath, text |-> <<files[XPath]>>])
              /\ calls' = Append(calls, [line |-> lineNo + 1,
                                         arg |-> TextJson(files[XPath]),
                                         outcome |-> "running"])
         ELSE reads' = reads]_vars

\* two messages named the same path, the file was rewritten in between, and
\* the handler received the old content, then the new
C12_Witness ==
    \E i \in PathCalls, j \in PathCalls :
        /\ i < j
        /\ calls[i].arg = SessionStartEvent
        /\ calls[j].arg = ToolCallStartedEvent
        /\ Len(reads) = 2
        /\ reads[1].path = reads[2].path

(***************************************************************************)
(* C13 (as claimed): whatever a hook-event message holds under "event"     *)
(* (nothing, null, a number, an inline object, or an indirection path to a *)
(* file holding any JSON value), the handler is invoked with a JSON        *)
(* object.                                                                 *)
(* The code returns json.loads of the file as it is: a payload file that   *)
(* holds a list reaches the handler as a list.                             *)
(***************************************************************************)
C13_HandlerReceivesMapping ==
    \A i \in 1..Len(calls) : IsDict(calls[i].arg)

\* the calls of the binder made so far
Binds == IF fn.op = "bind" THEN 1..Len(fn.results) ELSE {}

\* the call on the i-th payload returned a typed event
BoundOk(i) == fn.results[i].exc = ""

TypeOf(payload) == IF "type" \in DOMAIN payload.d THEN payload.d["type"] ELSE Absent

\* the four common fields
CommonKeys == {"schema-version", "event-id", "timestamp", "type"}

KnownDiscriminant(payload) ==
    IsStr(TypeOf(payload)) /\ TypeOf(payload).s \in KnownEventTypes

\* type absent, null, empty, or a string that is no known discriminant
UnrecognizedDiscriminant(payload) ==
    \/ TypeOf(payload) \in {Absent, JNull}
    \/ IsStr(TypeOf(payload)) /\ TypeOf(payload).s \notin KnownEventTypes

Without(payload, keys) == JDict([k \in DOMAIN payload.d \ keys |-> payload.d[k]])

\* the payload keys of a variant's named fields
NamedKeys(event_type) ==
    {FieldsOf(event_type)[i].key : i \in 1..Len(FieldsOf(event_type))}

(***************************************************************************)
(* C14 (as claimed): the binder is total: on every string-keyed mapping,   *)
(* whatever the JSON types of its values (a non-numeric string, a list or  *)
(* an object as schema version included), parse_hook_event returns a typed *)
(* event and never raises.                                                 *)
(* The code computes int(payload.get("schema-version") or 0) unguarded:    *)
(* "abc" raises ValueError, [1] raises TypeError.                          *)
(***************************************************************************)
C14_BinderIsTotal ==
    \A i \in Binds : BoundOk(i)

(***************************************************************************)
(* C15 (as claimed): on every payload whose type is absent, null, the      *)
(* empty string or a string that is none of the eight discriminants,       *)
(* parse_hook_event does not raise and returns an UnknownHookEvent whose   *)
(* extras are the payload without the four common fields.                  *)
(* Fails through C14 only: such a payload with schema-version "abc"        *)
(* raises.                                                                 *)
(***************************************************************************)
C15_UnrecognizedIsUnknown ==
    \A i \in Binds :
        UnrecognizedDiscriminant(fn.todo[i]) =>
            /\ BoundOk(i)
            /\ fn.results[i].val.variant = "UnknownHookEvent"
            /\ fn.results[i].val.extras = Without(fn.todo[i], CommonKeys)

(***************************************************************************)
(* C16: extras and named fields are disjoint.  For every payload with a    *)
(* known discriminant, the extras of the returned variant hold no key of   *)
(* the variant's named fields and none of the four common fields, and hold *)
(* every other key of raw with the value raw has there.                    *)
(***************************************************************************)
C16_ExtrasDisjointFromNamed ==
    \A i \in Binds :
        (BoundOk(i) /\ KnownDiscriminant(fn.todo[i])) =>
            LET e == fn.results[i].val
                named == NamedKeys(TypeOf(fn.todo[i]).s) \cup CommonKeys
            IN /\ DOMAIN e.extras.d \cap named = {}
               /\ \A k \in DOMAIN e.raw.d \ named :
                     k \in DOMAIN e.extras.d /\ e.extras.d[k] = e.raw.d[k]

\* a tool-call-finished event with a named field and a field of the future:
\* only the latter is in extras
C16_Witness ==
    \E i \in Binds :
        /\ BoundOk(i)
        /\ TypeOf(fn.todo[i]) = JStr("tool-call-finished")
        /\ DOMAIN fn.todo[i].d = {"type", "tool-name", "future-field"}
        /\ fn.results[i].val.extras = JDict(("future-field" :> JInt(1)))

(***************************************************************************)
(* C17: raw is the whole input.  Every returned variant's raw equals the   *)
(* payload that was bound, key for key, and the call leaves the payload it *)
(* was given as it was.                                                    *)
(***************************************************************************)
C17_RawIsWholeInput ==
    [][(fn.op = "bind" /\ Len(fn'.results) = Len(fn.results) + 1) =>
          LET i == Len(fn'.results) IN
          /\ fn'.todo = fn.todo
          /\ fn'.results[i].exc = "" => fn'.results[i].val.raw = fn.todo[i]]_vars

\* a bound payload with a None value, common, named and unknown keys
C17_Witness ==
    \E i \in Binds :
        /\ BoundOk(i)
        /\ DOMAIN fn.todo[i].d = {"type", "schema-version", "cwd", "future-field"}
        /\ fn.todo[i].d["cwd"] = JNull
        /\ fn.results[i].val.raw = fn.todo[i]

HyphenKey(k) ==
    CASE k = "tool_name" -> "tool-name"
      [] k = "schema_version" -> "schema-version"
      [] OTHER -> k

\* the payload with every key in hyphen spelling
Hyphenated(payload) ==
    JDict([k \in {HyphenKey(x) : x \in DOMAIN payload.d} |->
              payload.d[CHOOSE x \in DOMAIN payload.d : HyphenKey(x) = k]])

(***************************************************************************)
(* C19 (as claimed): the binder tolerates both key spellings: a payload    *)
(* whose keys are written with underscores is bound to the same named      *)
(* field values as the same payload written with hyphens.                  *)
(* The code reads the hyphen-spelled keys only: {"tool_name": "x"} leaves  *)
(* tool_name None and puts the key in extras.                              *)
(***************************************************************************)
C19_BinderBothSpellings ==
    \A i \in Binds, j \in Binds :
        (/\ BoundOk(i)
         /\ BoundOk(j)
         /\ Hyphenated(fn.todo[i]) = fn.todo[j]) =>
            fn.results[i].val.fields = fn.results[j].val.fields

\* the opaque fields: attribute -> payload key
OpaqueFields ==
    ("approval_policy" :> "approval-policy") @@ ("sandbox_policy" :> "sandbox-policy")
    @@ ("token_usage" :> "token-usage")

(***************************************************************************)
(* C20 (as claimed): on every payload whose type is one of the eight known *)
(* discriminants, parse_hook_event returns the variant declared for that   *)
(* discriminant, with event_type equal to it; every named field absent     *)
(* from the payload is None, and the opaque fields (approval policy,       *)
(* sandbox policy, token usage) hold the payload's value as it is.         *)
(* Fails through C14 and C22 only: such a payload with schema-version      *)
(* "abc", or with a number of no finite size under an integer field,       *)
(* raises and no variant is returned.                                      *)
(***************************************************************************)
C20_VariantSelection ==
    \A i \in Binds :
        KnownDiscriminant(fn.todo[i]) =>
            /\ BoundOk(i)
            /\ LET e == fn.results[i].val
                   p == fn.todo[i]
                   fs == FieldsOf(TypeOf(p).s)
               IN /\ e.variant # "UnknownHookEvent"
                  /\ DeclaredEventType(e.variant) = TypeOf(p).s
                  /\ e.event_type = TypeOf(p)
                  /\ DOMAIN e.fields = DeclaredFields(e.variant)
                  /\ \A n \in 1..Len(fs) :
                        fs[n].key \notin DOMAIN p.d => e.fields[fs[n].attr] = JNull
                  /\ \A a \in DOMAIN OpaqueFields \cap DOMAIN e.fields :
                        e.fields[a] = DictGet(p, OpaqueFields[a])

\* integer, boolean, float, or a string that is a base-10 numeral
NumericLike(v) ==
    \/ v.t \in {"int", "bool", "float"}
    \/ IsStr(v) /\ PyIntOfStr(v.s).ok

\* the integer value of a numeric-like input
IntegerValue(v) ==
    CASE v.t = "int"   -> v.n
      [] v.t = "bool"  -> IF v.b THEN 1 ELSE 0
      [] v.t = "float" -> PyIntOfFloat(v.tenths)
      [] v.t = "str"   -> PyIntOfStr(v.s).n

(***************************************************************************)
(* C21 (as claimed): parse_hook_event coerces the common fields            *)
(* permissively: schema_version is the integer value of a numeric-like     *)
(* schema-version (integer, boolean, float, base-10 numeral) and 0 when it *)
(* is absent, null or not numeric-like; event_id and timestamp are the     *)
(* input when it is a string, and the string representation of any other   *)
(* input that is not null, falsy ones such as 0 or false included.         *)
(* The code raises on a schema-version that is not numeric-like (C14), and *)
(* computes str(x or ""): the inputs 0 and false give "" and not "0" and   *)
(* "False".                                                                *)
(***************************************************************************)
C21_CommonFieldCoercion ==
    \A i \in Binds :
        LET p == fn.todo[i]
            sv == DictGet(p, "schema-version")
        IN /\ BoundOk(i)
           /\ fn.results[i].val.schema_version =
                 JInt(IF NumericLike(sv) THEN IntegerValue(sv) ELSE 0)
           /\ \A key \in {"event-id", "timestamp"} :
                 LET v == DictGet(p, key)
                     bound == IF key = "event-id" THEN fn.results[i].val.event_id
                              ELSE fn.results[i].val.timestamp
                 IN /\ IsStr(v) => bound = v
                    /\ (~IsStr(v) /\ v # JNull) => bound = JStr(PyStr(v))

\* the call of the coercion op has ended
Coerced(op) == fn.op = op /\ fn.done

Abs(n) == IF n >= 0 THEN n ELSE 0 - n

\* the whole number nearest to a float (in tenths) on the side of zero
TowardZero(tenths) ==
    CHOOSE n \in (0 - Abs(tenths))..Abs(tenths) :
        /\ n * tenths >= 0
        /\ Abs(n) * 10 <= Abs(tenths)
        /\ Abs(tenths) < (Abs(n) + 1) * 10

\* the ways to write the whole number n as a base-10 numeral
Numerals(n) ==
    {l \o sign \o ToString(Abs(n)) \o r :
        l \in {"", " "}, r \in {"", " "},
        sign \in IF n < 0 THEN {"-"} ELSE {"", "+"}}

NumeralRange == -20..20

(***************************************************************************)
(* C22 (as claimed): _as_int never raises: a boolean gives 0 or 1, an      *)
(* integer itself, a float its value truncated toward zero, a string that  *)
(* is a base-10 numeral its value, and every other input (null, other      *)
(* strings, lists, objects) None.                                          *)
(* The code calls int(value) on a float outside any try: the float of      *)
(* 1e999 (infinity) raises OverflowError, NaN raises ValueError.           *)
(***************************************************************************)
C22_IntegerCoercion ==
    Coerced("_as_int") =>
        LET v == fn.input IN
        /\ fn.result.exc = ""
        /\ fn.result.val =
              CASE v.t = "bool"  -> JInt(IF v.b THEN 1 ELSE 0)
                [] v.t = "int"   -> v
                [] v.t = "float" -> JInt(TowardZero(v.tenths))
                [] v.t = "str" /\ (\E n \in NumeralRange : v.s \in Numerals(n)) ->
                      JInt(CHOOSE n \in NumeralRange : v.s \in Numerals(n))
                [] OTHER         -> JNull

\* the ways to write a word of the vocabulary, as to case
Casings(word) ==
    CASE word = "true"  -> {"true", "True", "TRUE"}
      [] word = "yes"   -> {"yes", "Yes", "YES"}
      [] word = "y"     -> {"y", "Y"}
      [] word = "on"    -> {"on", "On", "ON"}
      [] word = "false" -> {"false", "False", "FALSE"}
      [] word = "no"    -> {"no", "No", "NO"}
      [] word = "n"     -> {"n", "N"}
      [] word = "off"   -> {"off", "Off", "OFF"}
      [] OTHER          -> {word}

Vocabulary(b) ==
    IF b THEN {"true", "1", "yes", "y", "on"} ELSE {"false", "0", "no", "n", "off"}

\* the strings that are a word of the vocabulary, compared case-insensitively
Words(b) == UNION {Casings(w) : w \in Vocabulary(b)}

\* the same, with blanks around
PaddedWords(b) == {l \o w \o r : l \in {"", " "}, r \in {"", " "}, w \in Words(b)}

\* what _as_bool gives, a string being true or false when it is in yes or no
BoolOf(v, yes, no) ==
    CASE v.t = "bool" -> v
      [] v.t = "int"  -> JBool(v.n # 0)
      [] v.t = "str" /\ v.s \in yes -> JBool(TRUE)
      [] v.t = "str" /\ v.s \in no  -> JBool(FALSE)
      [] OTHER        -> JNull

(***************************************************************************)
(* C23 (as claimed): _as_bool never raises: a boolean gives itself, an     *)
(* integer true when non-zero and false when zero, a string true exactly   *)
(* when, compared case-insensitively, it is one of true/1/yes/y/on and     *)
(* false exactly when it is one of false/0/no/n/off, and every other input *)
(* (null, any other string, floats, lists, objects) None.                  *)
(* The code strips the string first: " Yes " gives true, not None.         *)
(***************************************************************************)
C23_BooleanCoercionAsClaimed ==
    Coerced("_as_bool") =>
        /\ fn.result.exc = ""
        /\ fn.result.val = BoolOf(fn.input, Words(TRUE), Words(FALSE))

(***************************************************************************)
(* C23 (amended): as above, the string being compared case-insensitively   *)
(* after the white space around it is removed.                             *)
(***************************************************************************)
C23_BooleanCoercion ==
    Coerced("_as_bool") =>
        /\ fn.result.exc = ""
        /\ fn.result.val = BoolOf(fn.input, PaddedWords(TRUE), PaddedWords(FALSE))

\* "OFF" gave false
C23_Witness ==
    /\ Coerced("_as_bool")
    /\ fn.input = JStr("OFF")
    /\ fn.result.val = JBool(FALSE)

\* the to-string rule applied to the elements of a list that are not null,
\* in order
RECURSIVE Stringified(_)
Stringified(l) ==
    IF l = <<>> THEN <<>>
    ELSE (IF Head(l) = JNull THEN <<>>
          ELSE IF IsStr(Head(l)) THEN <<Head(l)>>
          ELSE <<JStr(PyStr(Head(l)))>>) \o Stringified(Tail(l))

(***************************************************************************)
(* C24: _as_str_list gives, for a list, the list of its elements in the    *)
(* same order, each element that is not null stringified by the to-string  *)
(* rule (strings unchanged) and each null element dropped: the result is   *)
(* never longer than the input and holds no None; every input that is no   *)
(* list (null, string, number, boolean, object) gives None.                *)
(***************************************************************************)
C24_StringListCoercion ==
    Coerced("_as_str_list") =>
        /\ fn.result.exc = ""
        /\ IF fn.input.t = "list"
           THEN /\ fn.result.val = JList(Stringified(fn.input.l))
                /\ Len(fn.result.val.l) <= Len(fn.input.l)
                /\ \A i \in 1..Len(fn.result.val.l) : fn.result.val.l[i] # JNull
           ELSE fn.result.val = JNull

\* [null, "ls", -1.5] gave ["ls", "-1.5"]
C24_Witness ==
    /\ Coerced("_as_str_list")
    /\ fn.input = JList(<<JNull, JStr("ls"), JFloat(-15)>>)
    /\ fn.result.val = JList(<<JStr("ls"), JStr("-1.5")>>)

\* the call of parse_hook_payload has ended
PayloadBound == fn.op = "parse_hook_payload" /\ fn.done

\* C25: parse_hook_payload returns for every payload; each optional named
\* attribute of the returned HookPayload holds the payload's value for the
\* same key when the key is present and None when it is absent; raw equals
\* the input; extras holds exactly the items of raw whose key is not a named
\* attribute of HookPayload.
\* Fails: every optional attribute is bound to a function object, whatever
\* the payload holds (and a schema_version of 1e999 makes the call raise).
C25_OptionalAttributesHoldValues ==
    PayloadBound =>
        /\ fn.result.exc = ""
        /\ \A a \in HookPayloadOptional :
               fn.result.val.fields[a] = DictGet(fn.input, a)
        /\ fn.result.val.raw = fn.input
        /\ fn.result.val.extras =
               JDict([k \in DOMAIN fn.input.d \ (HookPayloadRequired \cup HookPayloadOptional)
                        |-> fn.input.d[k]])

\* the guards and the binder have been called on the payload
Guarded == fn.op = "guards" /\ fn.done

\* the dataclass that goes with a payload type
EventClassOf(typed_dict) ==
    CASE typed_dict = "AgentTurnCompletePayload" -> "AgentTurnCompleteHookEvent"
      [] typed_dict = "ApprovalRequestedPayload" -> "ApprovalRequestedHookEvent"
      [] typed_dict = "ModelRequestStartedPayload" -> "ModelRequestStartedHookEvent"
      [] typed_dict = "ModelResponseCompletedPayload" -> "ModelResponseCompletedHookEvent"
      [] typed_dict = "SessionEndPayload" -> "SessionEndHookEvent"
      [] typed_dict = "SessionStartPayload" -> "SessionStartHookEvent"
      [] typed_dict = "ToolCallFinishedPayload" -> "ToolCallFinishedHookEvent"
      [] typed_dict = "ToolCallStartedPayload" -> "ToolCallStartedHookEvent"

\* C26: on every payload at most one of the eight is_* guards holds; a guard
\* holds exactly when the payload's type is the literal of the payload type
\* it narrows to and every key that type requires is present; and when a
\* guard holds and parse_hook_event returns, the event is of the dataclass of
\* that payload type, never UnknownHookEvent or another variant.
C26_GuardsAgreeWithBinder ==
    Guarded =>
        /\ Cardinality(fn.result.holds) <= 1
        /\ \A g \in GuardNames :
              g \in fn.result.holds <=>
                 /\ TypeOf(fn.input) = JStr(TypeLiteral(GuardedType(g)))
                 /\ RequiredKeys(GuardedType(g)) \subseteq DOMAIN fn.input.d
        /\ \A g \in fn.result.holds :
              fn.result.event.exc = "" =>
                 /\ fn.result.event.val.variant = EventClassOf(GuardedType(g))
                 /\ DeclaredEventType(fn.result.event.val.variant)
                       = TypeLiteral(GuardedType(g))

\* a payload with every key of a finished tool call passed its guard, with a
\* key of a later version in it, and was bound to the finished-tool-call event
C26_Witness ==
    /\ Guarded
    /\ fn.result.holds = {"is_tool_call_finished"}
    /\ HasKey(fn.input, "future-field")
    /\ fn.result.event.exc = ""
    /\ fn.result.event.val.variant = "ToolCallFinishedHookEvent"

\* main has been called, and with what
Started == fn.op = "main"

\* main was given exactly one argument and its module has a callable on_event
GateOpen == fn.argc = 2 /\ fn.module = "callable"

\* C27: when main is not given exactly one hook-module argument, or the
\* module has no callable on_event, main returns 2 with no input line read
\* and no handler invoked; and main returns 0 only with the gate passed and
\* every line of the input stream read.
C27_StartUpGate ==
    /\ Started /\ ~GateOpen =>
          /\ pc = "exit"
          /\ status = <<2>>
          /\ lineNo = 0
          /\ calls = <<>>
          /\ reads = <<>>
    /\ status = <<2>> => lineNo = 0 /\ calls = <<>> /\ reads = <<>>
    /\ status = <<0>> => Started /\ GateOpen /\ pc = "exit" /\ lineNo = Len(stdin)

\* a module whose on_event is no callable, given a stream with an event in
\* it: main returned 2 and the stream is untouched
C27_Witness ==
    /\ Started
    /\ fn.argc = 2
    /\ fn.module = "not_callable"
    /\ status = <<2>>
    /\ \E i \in 1..Len(stdin) : stdin[i] \in HookEventLines
    /\ lineNo = 0

\* a helper's call has ended
HelperEnded(op) == fn.op = op /\ fn.done

\* the envelopes whose indirection field names the file at XPath for the
\* resolver (payload_path, else payload-path) and for read_payload
\* (payload-path)
ResolverEnvelopesToX ==
    {Envelope(JStr(XPath), h, i) : h \in {Absent, JNull, JStr(""), JStr(XPath), JStr(YPath)},
                                   i \in BOOLEAN}
    \cup {Envelope(u, JStr(XPath), i) : u \in {Absent, JNull, JStr("")}, i \in BOOLEAN}

ReadPayloadEnvelopesToX ==
    {Envelope(u, JStr(XPath), i) : u \in {Absent, JNull, JStr(""), JStr(XPath)},
                                   i \in BOOLEAN}

\* the file at XPath parses to the object e, which holds an indirection field
NestedAtX(e) == XPath \in DOMAIN files /\ files[XPath] = JsonDumps(e)

InlineObjects ==
    {Envelope(u, h, i) : u \in PathValues, h \in {Absent, JNull, JStr("")},
                         i \in BOOLEAN}

\* C29: read_payload on inline input.  The empty input string yields the
\* empty object; an input that is a JSON object whose payload-path is
\* absent, null or empty yields that object as parsed; in both cases no
\* file is opened and nothing is raised.
C29_ReadPayloadInline ==
    HelperEnded("read_payload") =>
        /\ fn.input = <<>> =>
              /\ fn.result.exc = ""
              /\ fn.result.val = JDict(EmptyMap)
              /\ reads = <<>>
        /\ \A e \in InlineObjects :
              fn.input = JsonDumps(e) =>
                 /\ fn.result.exc = ""
                 /\ fn.result.val = e
                 /\ reads = <<>>

\* an object with inline fields and a null payload-path came back as it is,
\* with a file at hand that was not opened
C29_Witness ==
    /\ HelperEnded("read_payload")
    /\ fn.input = JsonDumps(Envelope(JStr(XPath), JNull, TRUE))
    /\ XPath \in DOMAIN files
    /\ fn.result.val = Envelope(JStr(XPath), JNull, TRUE)
    /\ reads = <<>>

\* the common keys each runtime's filter is said to require
HyphenCommonKeys == {"schema-version", "event-id", "timestamp", "type"}

UnderscoreCommonKeys ==
    {"schema_version", "event_id", "timestamp", "session_id", "cwd",
     "permission_mode", "transcript_path", "hook_event_name", "xcodex_event_type"}

\* the filter returned the mapping it was given when the mapping holds every
\* key of required, and None when it does not
PresenceOnly(required) ==
    /\ fn.result.exc = ""
    /\ required \subseteq DOMAIN fn.input.d => fn.result.val = fn.input
    /\ ~(required \subseteq DOMAIN fn.input.d) => fn.result.val = JNull

\* C30: as_hook_payload is a presence-only filter in both runtimes: it
\* returns the mapping it was given, as it is, exactly when every required
\* common key is present, and None when one is missing, whatever the values
\* under the keys and whatever other keys the mapping holds.
C30_PresenceOnlyFilter ==
    /\ HelperEnded("as_hook_payload") => PresenceOnly(HyphenCommonKeys)
    /\ HelperEnded("xcodex_as_hook_payload") => PresenceOnly(UnderscoreCommonKeys)

\* a mapping with null under every required key and a key of a later version
\* passed the hyphen-keyed filter as it is
C30_Witness ==
    /\ HelperEnded("as_hook_payload")
    /\ DOMAIN fn.input.d = HyphenCommonKeys \cup {"future-field"}
    /\ \A k \in DOMAIN fn.input.d : fn.input.d[k] = JNull
    /\ fn.result.val = fn.input

====
